---------------------------- MODULE Spec2Model ----------------------------
(***************************************************************************)
(* Model of the subset-sum optimization programs: the entropy/probability  *)
(* functions (macros.py, classical.py, quantum_hgj_asymmetric.py), the     *)
(* five constraint bundles and their optimize_* drivers.                   *)
(*                                                                         *)
(* Numbers.  Every quantity the programs compute from a rational input is  *)
(* a rational combination of 1 and of log2 p for the odd primes p         *)
(* (x*log(x,2) of a rational x).  A number is held exactly as              *)
(*     (c[1] + c[2]*log2 3 + c[3]*log2 5 + ... ) / d                       *)
(* in lowest terms, together with the IEEE specials the programs can       *)
(* produce (inf, -inf, nan), a raised ZeroDivisionError, and the Python    *)
(* type of the operand (float or numpy.float64), which decides what a      *)
(* division by zero does.  Floating-point rounding is not modelled.        *)
(***************************************************************************)
EXTENDS Integers, Sequences, FiniteSets, TLC

Abs(n) == IF n < 0 THEN -n ELSE n

RECURSIVE Gcd(_, _)
Gcd(a, b) == IF b = 0 THEN a ELSE Gcd(b, a % b)

\* The primes p whose log2 p may occur, and floor(100000 * log2 p); log2 2
\* is 1, and every other entry of LogLo is below its logarithm by less
\* than 1.
LogPrimes == <<2, 3, 5, 7, 11, 13, 17, 23, 29, 31, 37, 53, 173>>
LogLo == <<100000, 158496, 232192, 280735, 345943, 370043, 408746, 452356, 485798,
           495419, 520945, 572792, 743462>>
ZeroVec == <<0, 0, 0, 0, 0, 0, 0, 0, 0, 0, 0, 0, 0>>
Unit(n) == <<n, 0, 0, 0, 0, 0, 0, 0, 0, 0, 0, 0, 0>>

\* The function f on 1..n as a tuple (its entries are computed once, here).
Tuple(f) == SubSeq(f, 1, Len(f))

RECURSIVE GcdSeq(_, _, _)
GcdSeq(g, c, i) == IF i > Len(c) THEN g ELSE GcdSeq(Gcd(g, Abs(c[i])), c, i + 1)

\* (c / d) divided through by g, d / g > 0.
Reduce(t, c, d, g) ==
    [k |-> "real", t |-> t, c |-> Tuple([i \in DOMAIN c |-> c[i] \div g]), d |-> d \div g]

\* (c / d) in lowest terms, d > 0.
Norm(t, c, d) == Reduce(t, c, d, (IF d < 0 THEN -1 ELSE 1) * GcdSeq(Abs(d), c, 1))

\* The Python float n/d and the numpy.float64 n/d.
Q(n, d) == Norm("float", Unit(n), d)
NP(n, d) == Norm("float64", Unit(n), d)
Special(kind, t) ==
    [k |-> kind, t |-> IF kind = "err" THEN "float" ELSE t, c |-> ZeroVec, d |-> 1]
ZeroDivisionError == Special("err", "float")

\* numpy.float64 is contagious: float op float64 is a float64.
Ty(x, y) == IF x.t = "float64" \/ y.t = "float64" THEN "float64" ELSE "float"

IsRat(x) == x.k = "real" /\ \A i \in DOMAIN x.c : i = 1 \/ x.c[i] = 0
IsFinite(x) == x.k = "real"

\* The sum of c[i] * (LogLo[i] + 1) over the i >= 2 where Sign(c[i]) = up, and
\* of c[i] * LogLo[i] over the others: a bound of 100000 * (c . log2 LogPrimes).
RECURSIVE LogBound(_, _, _)
LogBound(c, up, i) ==
    IF i > Len(c) THEN 0
    ELSE c[i] * (LogLo[i] + (IF i > 1 /\ c[i] * up > 0 THEN 1 ELSE 0))
         + LogBound(c, up, i + 1)

\* The sign of c . log2 LogPrimes, decided by the enclosure
\* LogLo[i] <= 100000 * log2 p_i <= LogLo[i] + 1 (the logarithms are linearly
\* independent over the rationals: the sum is 0 for c = 0 only).  No value
\* is chosen when the enclosure straddles 0, so that TLC stops rather than
\* guess.
Sign(c) ==
    CHOOSE s \in {-1, 0, 1} : \/ s = 1 /\ LogBound(c, -1, 1) > 0
                              \/ s = -1 /\ LogBound(c, 1, 1) < 0
                              \/ s = 0 /\ c = ZeroVec

\* -1, 0, 1 for ninf/real/pinf ordering of the extended reals.
SignX(x) == IF x.k = "pinf" THEN 1 ELSE IF x.k = "ninf" THEN -1 ELSE Sign(x.c)

\* The IEEE special of sign s: nan for 0 * inf, 0 / 0 and inf - inf.
InfKind(s) == IF s = 0 THEN "nan" ELSE IF s > 0 THEN "pinf" ELSE "ninf"

Neg(x) ==
    CASE x.k = "real" -> [x EXCEPT !.c = Tuple([i \in DOMAIN x.c |-> -x.c[i]])]
      [] x.k = "pinf" -> [x EXCEPT !.k = "ninf"]
      [] x.k = "ninf" -> [x EXCEPT !.k = "pinf"]
      [] OTHER -> x

\* The kind of x + y when x or y is not a real.
AddKind(a, b) ==
    CASE a = "err" \/ b = "err" -> "err"
      [] a = "nan" \/ b = "nan" -> "nan"
      [] a = "real" -> b
      [] b = "real" -> a
      [] OTHER -> IF a = b THEN a ELSE "nan"

\* x + y
Add(x, y) ==
    IF x.k = "real" /\ y.k = "real"
    THEN Norm(Ty(x, y), [i \in DOMAIN x.c |-> x.c[i] * y.d + y.c[i] * x.d], x.d * y.d)
    ELSE Special(AddKind(x.k, y.k), Ty(x, y))

\* x - y
Sub(x, y) == Add(x, Neg(y))

\* r * o for a rational r.
Scale(r, o) ==
    Norm(Ty(r, o), [i \in DOMAIN o.c |-> r.c[1] * o.c[i]],
         (CHOOSE dd \in {r.d * o.d} : IsRat(r)))

\* The kind of x * y when x or y is not a real.
MulKind(x, y) ==
    CASE x.k = "err" \/ y.k = "err" -> "err"
      [] x.k = "nan" \/ y.k = "nan" -> "nan"
      [] OTHER -> InfKind(SignX(x) * SignX(y))

\* x * y, one of the two factors being a rational or a special
Mul(x, y) ==
    IF x.k = "real" /\ y.k = "real"
    THEN Scale(IF IsRat(x) THEN x ELSE y, IF IsRat(x) THEN y ELSE x)
    ELSE Special(MulKind(x, y), Ty(x, y))

\* The kind of x / y when x or y is not a real, or y is 0: Python raises
\* ZeroDivisionError when both operands are Python floats and y = 0;
\* numpy.float64 gives inf, -inf or nan (and a RuntimeWarning).
DivKind(x, y) ==
    CASE x.k = "err" \/ y.k = "err" -> "err"
      [] x.k = "nan" \/ y.k = "nan" -> "nan"
      [] y.k # "real" -> IF x.k = "real" THEN "real" ELSE "nan"
      [] y.c = ZeroVec /\ Ty(x, y) = "float" -> "err"
      [] OTHER -> InfKind(SignX(x) * (IF y.c = ZeroVec THEN 1 ELSE Sign(y.c)))

\* x / y for a rational y
Div(x, y) ==
    IF x.k = "real" /\ y.k = "real" /\ y.c # ZeroVec
    THEN Norm(Ty(x, y), [i \in DOMAIN x.c |-> x.c[i] * y.d],
              (CHOOSE dd \in {x.d * y.c[1]} : IsRat(y)))
    ELSE Special(DivKind(x, y), Ty(x, y))

\* x <= y, x < y, x >= y, x > y, x == y: False whenever an operand is nan.
Cmp(x, y) ==
    IF x.k = "real" /\ y.k = "real"
    THEN Sign(Sub(x, y).c)
    ELSE IF x.k = y.k THEN 0
    ELSE IF x.k = "ninf" \/ y.k = "pinf" THEN -1 ELSE 1
Ordered(x, y) == x.k \notin {"nan", "err"} /\ y.k \notin {"nan", "err"}
Leq(x, y) == Ordered(x, y) /\ Cmp(x, y) <= 0
Lt(x, y) == Ordered(x, y) /\ Cmp(x, y) < 0
Geq(x, y) == Ordered(x, y) /\ Cmp(x, y) >= 0
Gt(x, y) == Ordered(x, y) /\ Cmp(x, y) > 0
Eq(x, y) == Ordered(x, y) /\ Cmp(x, y) = 0

\* The value of a number without its Python type.
Val(x) == [k |-> x.k, c |-> x.c, d |-> x.d]

\* Python's max(*args) and min(*args): a left fold with >, <; an argument
\* that raised makes the call raise, a nan argument that is not the first
\* is skipped, a nan first argument is returned.
RECURSIVE PyMaxFrom(_, _, _)
PyMaxFrom(m, s, i) ==
    IF i > Len(s) THEN m
    ELSE PyMaxFrom(IF Gt(s[i], m) THEN s[i] ELSE m, s, i + 1)
PyMax(s) ==
    IF \E i \in 1..Len(s) : s[i].k = "err" THEN ZeroDivisionError
    ELSE PyMaxFrom(s[1], s, 2)

RECURSIVE PyMinFrom(_, _, _)
PyMinFrom(m, s, i) ==
    IF i > Len(s) THEN m
    ELSE PyMinFrom(IF Lt(s[i], m) THEN s[i] ELSE m, s, i + 1)
PyMin(s) ==
    IF \E i \in 1..Len(s) : s[i].k = "err" THEN ZeroDivisionError
    ELSE PyMinFrom(s[1], s, 2)

\* The exponent of the prime p in n >= 1.
RECURSIVE ExpOf(_, _)
ExpOf(n, p) == IF n % p = 0 THEN 1 + ExpOf(n \div p, p) ELSE 0

RECURSIVE Pow(_, _)
Pow(b, e) == IF e = 0 THEN 1 ELSE b * Pow(b, e - 1)

RECURSIVE PowProd(_, _)
PowProd(v, i) == IF i > Len(v) THEN 1 ELSE Pow(LogPrimes[i], v[i]) * PowProd(v, i + 1)

\* log2 n for an integer n >= 1, as a coefficient vector; n has no prime factor
\* beyond LogPrimes (no vector is chosen otherwise, so that TLC stops).
LogVec(n) ==
    CHOOSE w \in {Tuple([i \in DOMAIN LogPrimes |-> ExpOf(n, LogPrimes[i])])} :
        n = PowProd(w, 1)

\* log2 n - log2 d as a Python float.
LogDiff(ln, ld) ==
    [k |-> "real", t |-> "float", c |-> Tuple([i \in DOMAIN ln |-> ln[i] - ld[i]]),
     d |-> 1]

\* math.log(x, 2) for x > 0 (a rational, inf or nan); math.log returns a
\* Python float whatever the type of its operand.
Log2(x) ==
    IF x.k = "real"
    THEN LogDiff(LogVec((CHOOSE n \in {x.c[1]} : IsRat(x) /\ n > 0)), LogVec(x.d))
    ELSE Special(x.k, "float")

\* The Python float n / d, n / d being in lowest terms.
Float(n, d) == [k |-> "real", t |-> "float", c |-> Unit(n), d |-> d]
Zero == Float(0, 1)
One == Float(1, 1)
Two == Float(2, 1)
Half == Float(1, 2)

(***************************************************************************)
(* The entropy/probability functions.  An argument that raised makes the   *)
(* call raise (Python evaluates the arguments first).                      *)
(***************************************************************************)

\* quantum_hgj_asymmetric.xlx: the zero policy.
hgj_xlx(x) ==
    IF x.k = "err" THEN x
    ELSE IF Leq(x, Zero) THEN Zero
    ELSE Mul(x, Log2(x))

\* classical.xlx: the zero policy.
classical_xlx(x) ==
    IF x.k = "err" THEN x
    ELSE IF Leq(x, Zero) THEN Zero
    ELSE Mul(x, Log2(x))

\* macros.xlx: the penalty policy, -100*x for x <= 0.
macros_xlx(x) ==
    IF x.k = "err" THEN x
    ELSE IF Leq(x, Zero) THEN Mul(Q(-100, 1), x)
    ELSE Mul(x, Log2(x))

\* quantum_hgj_asymmetric.h
h(a) == Sub(Neg(hgj_xlx(a)), hgj_xlx(Sub(One, a)))

\* quantum_hgj_asymmetric.filtering
filtering(a, b) == Sub(Mul(Sub(One, b), h(Div(a, Sub(One, b)))), h(a))

\* classical.g
classical_g(a, b) ==
    Sub(Sub(Neg(classical_xlx(a)), classical_xlx(b)), classical_xlx(Sub(Sub(One, a), b)))

\* classical.p_good
classical_p_good(a0, b0, a1, b1) ==
    Sub(Sub(Sub(Sub(Sub(Mul(Q(-2, 1), classical_xlx(Div(a0, Two))),
                        Mul(Two, classical_xlx(Div(b0, Two)))),
                    classical_xlx(Sub(a1, Div(a0, Two)))),
                classical_xlx(Sub(b1, Div(b0, Two)))),
            classical_xlx(Sub(Sub(Sub(Sub(One, a1), b1), Div(a0, Two)), Div(b0, Two)))),
        Mul(Two, classical_g(a1, b1)))

\* classical.f with the saturation test moved in front of the three
\* non-positive tests.
classical_f_saturation_first(a, b, c) ==
    IF Geq(Add(Add(a, b), c), One)
    THEN PyMin(<<classical_g(b, c), classical_g(a, c), classical_g(a, b)>>)
    ELSE IF Leq(a, Zero) THEN classical_g(b, c)
    ELSE IF Leq(b, Zero) THEN classical_g(a, c)
    ELSE IF Leq(c, Zero) THEN classical_g(a, b)
    ELSE Sub(Sub(Sub(Neg(classical_xlx(a)), classical_xlx(b)), classical_xlx(c)),
             classical_xlx(Sub(Sub(Sub(One, a), b), c)))

\* classical.f: the fallback ladder.  The try block is the four logarithms;
\* math.log raises (and f returns 0.) when its argument is not positive.
classical_f(a, b, c) ==
    IF Leq(a, Zero) THEN classical_g(b, c)
    ELSE IF Leq(b, Zero) THEN classical_g(a, c)
    ELSE IF Leq(c, Zero) THEN classical_g(a, b)
    ELSE IF Geq(Add(Add(a, b), c), One)
         THEN PyMin(<<classical_g(b, c), classical_g(a, c), classical_g(a, b)>>)
    ELSE LET r == Sub(Sub(Sub(One, a), b), c)
         IN  IF Gt(r, Zero)
             THEN Sub(Sub(Sub(Neg(Mul(a, Log2(a))), Mul(b, Log2(b))), Mul(c, Log2(c))),
                      Mul(r, Log2(r)))
             ELSE Zero

\* proba(x), the function p_good_2 minimizes (classical.py line 62).
proba(x, b0, a0, c0, b1, a1, c1) ==
    LET t1 == Mul(Two, classical_xlx(Div(a0, Two)))
        t2 == Mul(Two, classical_xlx(Sub(Sub(Add(x, a1), Div(a0, Two)), Div(b0, Two))))
        t3 == classical_xlx(Sub(Sub(Sub(One, c0), Mul(Two, a1)), Mul(Two, x)))
        t4 == Mul(Two, classical_xlx(Sub(Div(b0, Two), x)))
        t5 == Mul(Two, classical_xlx(x))
        t6 == Mul(Two, classical_xlx(Sub(Sub(Add(Sub(Add(x, Div(c0, Two)), Div(b1, Two)),
                                                  Div(a1, Two)),
                                              Div(a0, Q(4, 1))), Div(b0, Q(4, 1)))))
        t7 == classical_xlx(Sub(Add(Add(Sub(b1, a1), Div(a0, Two)), Div(b0, Two)),
                                Mul(Two, x)))
    IN  Add(Add(Add(Add(Add(Add(t1, t2), t3), t4), t5), t6), t7)

\* bounds[0] of p_good_2 (classical.py line 63): <<lower, upper>>.
p_good_2_bounds(b0, a0, c0, b1, a1, c1) ==
    LET m == Add(Add(Sub(Div(b1, Two), Div(a1, Two)), Div(a0, Q(4, 1))), Div(b0, Q(4, 1)))
    IN  << PyMax(<<Sub(Add(Div(a0, Two), Div(b0, Two)), a1), Zero, Sub(m, Div(c0, Two))>>),
           PyMin(<<Sub(Sub(Half, Div(c0, Two)), a1), Div(b0, Two), m>>) >>

\* The point of its interval at which fminbound ends when called on
\* <<x1, x2>> = b: the interval's lower end, middle or upper end, as named
\* by where.
FminAt(b, where) ==
    CASE where = "lower" -> b[1]
      [] where = "middle" -> Div(Add(b[1], b[2]), Two)
      [] where = "upper" -> b[2]

\* classical.p_good_2 without the test for an empty interval: the bounded
\* minimizer is called whatever the interval.
p_good_2_run_unguarded(b0, a0, c0, b1, a1, c1, bounds, where) ==
    [ret |-> Sub(Neg(proba(FminAt(bounds, where), b0, a0, c0, b1, a1, c1)),
                 Mul(Two, classical_f(a1, b1, c1))),
     fminbound |-> <<[x1 |-> bounds[1], x2 |-> bounds[2]]>>]

\* classical.p_good_2 from its line 64 on, bounds being bounds[0]: the value
\* returned and the fminbound calls made.  scipy's
\* fminbound(func, x1, x2, full_output=1)[1] is the value of func at the
\* point of [x1, x2] where the minimizer ends; the minimizer is not code of
\* the repository, and where names that point.
p_good_2_run(b0, a0, c0, b1, a1, c1, bounds, where) ==
    IF Gt(bounds[1], bounds[2])
    THEN [ret |-> Sub(classical_p_good(b0, a0, b1, a1), One), fminbound |-> <<>>]
    ELSE [ret |-> Sub(Neg(proba(FminAt(bounds, where), b0, a0, c0, b1, a1, c1)),
                      Mul(Two, classical_f(a1, b1, c1))),
          fminbound |-> <<[x1 |-> bounds[1], x2 |-> bounds[2]]>>]

\* classical.p_good_2
p_good_2(b0, a0, c0, b1, a1, c1, where) ==
    p_good_2_run(b0, a0, c0, b1, a1, c1, p_good_2_bounds(b0, a0, c0, b1, a1, c1), where)

\* classical.p_good_2_aux
p_good_2_aux(b0, a0, c0, b1, a1, c1) ==
    Sub(Neg(Add(Add(Add(Mul(Two, classical_xlx(Sub(a1, c1))),
                        classical_xlx(Sub(Sub(One, Mul(Two, c1)), Mul(Two, b1)))),
                    Mul(Two, classical_xlx(c1))),
                Mul(Two, classical_xlx(Sub(Div(b0, Two), c1))))),
        Mul(Two, classical_f(a1, b1, c1)))

\* macros.f with the last entropy term taken at 1-a-b.
macros_f_short(a, b, c) ==
    Sub(Sub(Sub(Neg(macros_xlx(a)), macros_xlx(b)), macros_xlx(c)),
        macros_xlx(Sub(Sub(One, a), b)))

\* macros.f
macros_f(a, b, c) ==
    Sub(Sub(Sub(Neg(macros_xlx(a)), macros_xlx(b)), macros_xlx(c)),
        macros_xlx(Sub(Sub(Sub(One, a), b), c)))

\* macros.g
macros_g(a, b) ==
    Sub(Sub(Neg(macros_xlx(a)), macros_xlx(b)), macros_xlx(Sub(Sub(One, a), b)))

\* macros.p_good_2_down
p_good_2_down(b0, a0, c0, b1, a1, c1) ==
    Sub(Neg(Add(Add(Add(Mul(Two, macros_xlx(Sub(a1, c1))),
                        macros_xlx(Sub(Sub(One, Mul(Two, c1)), Mul(Two, b1)))),
                    Mul(Two, macros_xlx(c1))),
                Mul(Two, macros_xlx(Sub(Div(b0, Two), c1))))),
        Mul(Two, macros_f(a1, b1, c1)))

\* macros.p_good_2_up
p_good_2_up(b0, a0, c0, b1, a1, c1) ==
    Sub(Neg(Add(Add(Add(Add(Mul(Two, macros_xlx(Div(a0, Two))),
                            Mul(Two, macros_xlx(Sub(a1, Div(a0, Two))))),
                        macros_xlx(Sub(Sub(Sub(One, b0), c0), Mul(Two, a1)))),
                    Mul(Two, macros_xlx(Div(b0, Two)))),
                macros_xlx(c0))),
        Mul(Two, macros_f(b1, a1, c1)))

\* macros.p_good
macros_p_good(a0, b0, a1, b1) ==
    Sub(Sub(Sub(Sub(Sub(Mul(Q(-2, 1), macros_xlx(Div(a0, Two))),
                        Mul(Two, macros_xlx(Div(b0, Two)))),
                    macros_xlx(Sub(a1, Div(a0, Two)))),
                macros_xlx(Sub(b1, Div(b0, Two)))),
            macros_xlx(Sub(Sub(Sub(Sub(One, a1), b1), Div(a0, Two)), Div(b0, Two)))),
        Mul(Two, macros_g(a1, b1)))



(***************************************************************************)
(* Parameter schemas and constraint bundles.  A constraint is the pair     *)
(* [type, fun]; fun names its lambda by file and source line, with the     *)
(* value of mcons the lambda closed over (None when it captures nothing).  *)
(***************************************************************************)

None == [k |-> "None"]

\* wrap(f, g)(x) = f(g(*x)): g is a namedtuple class, and g(*x) the record of
\* x's entries under the schema's field names, in order.
Decode(schema, x) ==
    [n \in {schema[i] : i \in 1..Len(schema)} |->
        x[CHOOSE i \in 1..Len(schema) : schema[i] = n]]

Lambda(file, line) == [file |-> file, line |-> line, mcons |-> None]
Cons(type, file, line) == [type |-> type, fun |-> Lambda(file, line)]

set_qhgj == <<"l30", "l31", "l32", "l34", "l20", "l21", "l22", "l10", "l11",
              "a", "b", "c", "r", "c20", "c21", "c1", "c0">>

\* quantum_hgj_asymmetric.constraints_hgj as first defined (lines 73-101).
constraints_hgj_base ==
    << Cons("eq", "hgj", 75),
       Cons("ineq", "hgj", 77), Cons("ineq", "hgj", 78), Cons("ineq", "hgj", 79),
       Cons("ineq", "hgj", 81), Cons("ineq", "hgj", 82), Cons("ineq", "hgj", 83),
       Cons("ineq", "hgj", 84),
       Cons("ineq", "hgj", 86), Cons("ineq", "hgj", 87), Cons("ineq", "hgj", 88),
       Cons("ineq", "hgj", 90), Cons("ineq", "hgj", 91),
       Cons("eq", "hgj", 93), Cons("eq", "hgj", 94), Cons("eq", "hgj", 95),
       Cons("eq", "hgj", 97), Cons("eq", "hgj", 98),
       Cons("eq", "hgj", 100) >>

\* The lambdas of quantum_hgj_asymmetric.py, by line, at the decoded x; the
\* lambdas of lines 166 and 168 close over optimize_hgj's mcons.
hgj_lambda(line, mcons, x) ==
    CASE line = 75 -> Sub(Add(Add(Mul(x.a, Two), x.b), x.c), Half)
      [] line = 77 -> Sub(x.c1, x.c21)
      [] line = 78 -> Sub(x.c1, x.c20)
      [] line = 79 -> Sub(x.c0, x.c1)
      [] line = 81 -> Sub(Mul(h(x.c), Sub(One, x.r)), x.l30)
      [] line = 82 -> Sub(Mul(h(x.c), x.r), x.l31)
      [] line = 83 -> Sub(Div(h(x.b), Two), x.l32)
      [] line = 84 -> Sub(Div(h(x.a), Two), x.l34)
      [] line = 86 -> Sub(Sub(h(x.c), x.c20), x.l20)
      [] line = 87 -> Sub(Sub(h(x.b), x.c20), x.l21)
      [] line = 88 -> Sub(Sub(h(x.a), x.c21), x.l22)
      [] line = 90 -> Sub(Sub(h(Add(x.c, x.b)), x.c1), x.l10)
      [] line = 91 -> Sub(Sub(h(Mul(Two, x.a)), x.c1), x.l11)
      [] line = 93 -> Sub(Sub(Add(x.l30, x.l31), x.c20), x.l20)
      [] line = 94 -> Sub(Sub(Mul(x.l32, Two), x.c20), x.l21)
      [] line = 95 -> Sub(Sub(Mul(x.l34, Two), x.c21), x.l22)
      [] line = 97 -> Sub(Add(Add(Sub(Add(x.l20, x.l21), x.c1), x.c20),
                              filtering(x.b, x.c)), x.l10)
      [] line = 98 -> Sub(Add(Add(Sub(Mul(x.l22, Two), x.c1), x.c21),
                              filtering(x.a, x.a)), x.l11)
      [] line = 100 -> Add(Sub(Add(x.l10, x.l11), Sub(x.c0, x.c1)),
                           filtering(Add(x.b, x.c), Mul(Two, x.a)))
      [] line = 159 -> Sub(x.c0, One)
      [] line = 166 -> Sub(mcons, PyMax(<<x.l31, x.l21, x.l11>>))
      [] line = 168 -> Sub(mcons, PyMax(<<x.l31, x.l32, x.l21, x.l22, x.l34, x.l11,
                                         x.l22>>))

\* quantum_hgj_asymmetric.memory_hgj
memory_hgj(v) ==
    LET x == Decode(set_qhgj, v)
    IN  PyMax(<<x.l31, x.l32, x.l34, x.l21, x.l22, x.l11>>)

\* quantum_hgj_asymmetric.classical_time_hgj
classical_time_hgj(v) ==
    LET x == Decode(set_qhgj, v)
    IN  Add(Sub(One, x.c0),
            PyMax(<<x.l31, x.l32, x.l34, x.l21, x.l22,
                    Add(Sub(Mul(x.l22, Two), x.c1), x.c21),
                    Add(Add(x.l30, PyMax(<<Sub(x.l31, x.c20), Zero>>)),
                        PyMax(<<Add(Sub(x.l21, x.c1), x.c20), Zero>>))>>))

\* The last argument of max in both quantum times (lines 121 and 131).
quantum_search_term(x) ==
    Mul(Half, Add(Add(Sub(x.l10, filtering(x.b, x.c)),
                      PyMax(<<Sub(x.c20, x.l31), Zero>>)),
                  PyMax(<<Sub(Sub(x.c1, x.c20), x.l21), Zero>>)))

\* quantum_hgj_asymmetric.quantum_time_hgj_first
quantum_time_hgj_first(v) ==
    LET x == Decode(set_qhgj, v)
    IN  Add(Sub(One, x.c0),
            PyMax(<<x.l31, x.l32, x.l34, x.l21, x.l22,
                    Add(Sub(Mul(x.l22, Two), x.c1), x.c21),
                    quantum_search_term(x)>>))

\* quantum_hgj_asymmetric.quantum_time_hgj_second
quantum_time_hgj_second(v) ==
    LET x == Decode(set_qhgj, v)
    IN  Add(Sub(One, x.c0),
            PyMax(<<x.l31, x.l32, x.l34, x.l21, x.l22,
                    Add(Add(Sub(Mul(x.l22, Two), x.c1), x.c21),
                        Mul(filtering(x.a, x.a), Half)),
                    quantum_search_term(x)>>))


set_classical == <<"p0", "p1", "p2", "l1", "l2", "l3", "l4", "c1", "c2", "c3",
                   "alpha1", "alpha2", "alpha3", "gamma1", "gamma2", "gamma3">>

\* classical.constraints_classical (lines 72-96).
constraints_classical_base ==
    << Cons("eq", "classical", 74), Cons("eq", "classical", 75),
       Cons("eq", "classical", 76),
       Cons("eq", "classical", 78), Cons("eq", "classical", 79),
       Cons("eq", "classical", 80), Cons("eq", "classical", 81),
       Cons("ineq", "classical", 82), Cons("ineq", "classical", 83),
       Cons("ineq", "classical", 84), Cons("ineq", "classical", 85),
       Cons("ineq", "classical", 87), Cons("ineq", "classical", 88),
       Cons("ineq", "classical", 89), Cons("ineq", "classical", 90),
       Cons("ineq", "classical", 91) >>

\* The arguments of the two p_good_2 calls (lines 75 and 76).
classical_p1_args(x) ==
    << Sub(Add(Q(1, 4), x.alpha1), Mul(Two, x.gamma1)), x.alpha1, x.gamma1,
       Sub(Add(Q(1, 8), x.alpha2), Mul(Two, x.gamma2)), x.alpha2, x.gamma2 >>
classical_p2_args(x) ==
    << Sub(Add(Q(1, 8), x.alpha2), Mul(Two, x.gamma2)), x.alpha2, x.gamma2,
       Sub(Add(Q(1, 16), x.alpha3), Mul(Two, x.gamma3)), x.alpha3, x.gamma3 >>


p_good_2_at(a, where) == p_good_2(a[1], a[2], a[3], a[4], a[5], a[6], where).ret

\* The lambdas of classical.py, by line, at the decoded x; where is the point
\* at which the nested fminbound calls end.
classical_lambda(line, x, where) ==
    CASE line = 74 ->
            Sub(p_good_2_aux(Half, Zero, Zero,
                             Sub(Add(Q(1, 4), x.alpha1), Mul(Two, x.gamma1)),
                             x.alpha1, x.gamma1), x.p0)
      [] line = 75 -> Sub(p_good_2_at(classical_p1_args(x), where), x.p1)
      [] line = 76 -> Sub(p_good_2_at(classical_p2_args(x), where), x.p2)
      [] line = 78 -> Add(Sub(Mul(Two, x.l1), Sub(One, x.c1)), x.p0)
      [] line = 79 -> Sub(Add(Sub(Mul(Two, x.l2), Sub(x.c1, x.c2)), x.p1), x.l1)
      [] line = 80 -> Sub(Add(Sub(Mul(Two, x.l3), Sub(x.c2, x.c3)), x.p2), x.l2)
      [] line = 81 -> Sub(Sub(Mul(Two, x.l4), x.c3), x.l3)
      [] line = 82 ->
            Sub(Sub(classical_f(Sub(Add(Q(1, 4), x.alpha1), Mul(Two, x.gamma1)),
                                x.alpha1, x.gamma1), x.c1), x.l1)
      [] line = 83 ->
            Sub(Sub(classical_f(Sub(Add(Q(1, 8), x.alpha2), Mul(Two, x.gamma2)),
                                x.alpha2, x.gamma2), x.c2), x.l2)
      [] line = 84 ->
            Sub(Sub(classical_f(Sub(Add(Q(1, 16), x.alpha3), Mul(Two, x.gamma3)),
                                x.alpha3, x.gamma3), x.c3), x.l3)
      [] line = 85 ->
            Sub(Mul(classical_f(Sub(Add(Q(1, 16), x.alpha3), Mul(Two, x.gamma3)),
                                x.alpha3, x.gamma3), Half), x.l4)
      [] line = 87 -> Sub(x.alpha2, Div(x.alpha1, Two))
      [] line = 88 -> Sub(x.alpha3, Div(x.alpha2, Two))
      [] line = 89 -> Sub(x.alpha1, Mul(Two, x.gamma1))
      [] line = 90 -> Sub(x.alpha2, Mul(Two, x.gamma2))
      [] line = 91 -> Sub(x.alpha3, Mul(Two, x.gamma3))

\* classical.classical_time
classical_time(v) ==
    LET x == Decode(set_classical, v)
    IN  PyMax(<<x.l4, x.l3, Sub(x.l2, x.p2), Sub(x.l1, x.p1), Neg(x.p0)>>)

set_bcj == <<"p0", "p1", "p2", "l1", "l2", "l3", "l4", "c1", "c2", "c3",
             "alpha1", "alpha2", "alpha3">>

\* classical_bcj.constraints_bcj_classical (lines 34-51).
constraints_bcj_classical_base ==
    << Cons("eq", "bcj", 36), Cons("eq", "bcj", 37), Cons("eq", "bcj", 38),
       Cons("eq", "bcj", 40), Cons("eq", "bcj", 41), Cons("eq", "bcj", 42),
       Cons("eq", "bcj", 43),
       Cons("ineq", "bcj", 44), Cons("ineq", "bcj", 45), Cons("ineq", "bcj", 46),
       Cons("ineq", "bcj", 47),
       Cons("ineq", "bcj", 49), Cons("ineq", "bcj", 50) >>

\* The names p_good and g in classical_bcj.py: line 14, from macros import *,
\* binds them to macros.p_good and macros.g (math, imported next, has neither).
bcj_p_good(a0, b0, a1, b1) == macros_p_good(a0, b0, a1, b1)
bcj_g(a, b) == macros_g(a, b)

\* The lambdas of classical_bcj.py, by line, at the decoded x.
bcj_lambda(line, x) ==
    CASE line = 36 -> Sub(bcj_p_good(Half, Zero, Add(Q(1, 4), x.alpha1), x.alpha1), x.p0)
      [] line = 37 -> Sub(bcj_p_good(Add(Q(1, 4), x.alpha1), x.alpha1,
                                     Add(Q(1, 8), x.alpha2), x.alpha2), x.p1)
      [] line = 38 -> Sub(bcj_p_good(Add(Q(1, 8), x.alpha2), x.alpha2,
                                     Add(Q(1, 16), x.alpha3), x.alpha3), x.p2)
      [] line = 40 -> Add(Sub(Mul(Two, x.l1), Sub(One, x.c1)), x.p0)
      [] line = 41 -> Sub(Add(Sub(Mul(Two, x.l2), Sub(x.c1, x.c2)), x.p1), x.l1)
      [] line = 42 -> Sub(Add(Sub(Mul(Two, x.l3), Sub(x.c2, x.c3)), x.p2), x.l2)
      [] line = 43 -> Sub(Sub(Mul(Two, x.l4), x.c3), x.l3)
      [] line = 44 -> Sub(Sub(bcj_g(Add(Q(1, 4), x.alpha1), x.alpha1), x.c1), x.l1)
      [] line = 45 -> Sub(Sub(bcj_g(Add(Q(1, 8), x.alpha2), x.alpha2), x.c2), x.l2)
      [] line = 46 -> Sub(Sub(bcj_g(Add(Q(1, 16), x.alpha3), x.alpha3), x.c3), x.l3)
      [] line = 47 -> Sub(Mul(bcj_g(Add(Q(1, 16), x.alpha3), x.alpha3), Half), x.l4)
      [] line = 49 -> Sub(x.alpha2, Div(x.alpha1, Two))
      [] line = 50 -> Sub(x.alpha3, Div(x.alpha2, Two))

\* classical_bcj.classical_time_bcj
classical_time_bcj(v) ==
    LET x == Decode(set_bcj, v)
    IN  PyMax(<<x.l4, x.l3, Sub(x.l2, x.p2), Sub(x.l1, x.p1), Neg(x.p0)>>)


\* The class set_quantum of quantum_qw_no_heuristic taken for that of
\* quantum_qw (the two files give their classes the same name).
qw_set_quantum_other == <<"p0", "p1", "p2", "l0", "l1", "l2", "l3", "l4", "c1", "c2",
                          "c3", "alpha1", "alpha2", "alpha3", "gamma1">>

\* quantum_qw.set_quantum
qw_set_quantum == <<"p0", "p1", "p2", "p3", "l0", "l1", "l2", "l3", "l4", "delta",
                    "c1", "c2", "c3", "c4", "alpha1", "alpha2", "alpha3", "alpha4",
                    "gamma1">>

\* quantum_qw.constraints_quantum (lines 36-65).
qw_constraints_quantum_base ==
    << Cons("eq", "qw", 38), Cons("eq", "qw", 39), Cons("eq", "qw", 40),
       Cons("eq", "qw", 41),
       Cons("eq", "qw", 43), Cons("eq", "qw", 44), Cons("eq", "qw", 45),
       Cons("eq", "qw", 46),
       Cons("eq", "qw", 48),
       Cons("ineq", "qw", 50),
       Cons("ineq", "qw", 52), Cons("ineq", "qw", 53), Cons("ineq", "qw", 54),
       Cons("ineq", "qw", 55),
       Cons("ineq", "qw", 62), Cons("ineq", "qw", 63), Cons("ineq", "qw", 64) >>

\* The lambdas of quantum_qw.py, by line, at the decoded x; f, g, p_good,
\* p_good_2_up and p_good_2_down are those of macros (lines 13-14).
qw_lambda(line, x) ==
    CASE line = 38 ->
            Sub(p_good_2_down(Half, Zero, Zero,
                              Sub(Add(Q(1, 4), x.alpha1), Mul(Two, x.gamma1)),
                              x.alpha1, x.gamma1), x.p0)
      [] line = 39 ->
            Sub(p_good_2_up(Sub(Add(Q(1, 4), x.alpha1), Mul(Two, x.gamma1)),
                            x.alpha1, x.gamma1, Add(Q(1, 8), x.alpha2), x.alpha2, Zero),
                x.p1)
      [] line = 40 -> Sub(macros_p_good(Add(Q(1, 8), x.alpha2), x.alpha2,
                                        Add(Q(1, 16), x.alpha3), x.alpha3), x.p2)
      [] line = 41 -> Sub(macros_p_good(Add(Q(1, 16), x.alpha3), x.alpha3,
                                        Add(Q(1, 32), x.alpha4), x.alpha4), x.p3)
      [] line = 43 -> Sub(Add(Sub(Mul(Two, x.l1), Sub(One, x.c1)), x.p0), x.l0)
      [] line = 44 -> Sub(Add(Sub(Mul(Two, x.l2), Sub(x.c1, x.c2)), x.p1), x.l1)
      [] line = 45 -> Sub(Add(Sub(Mul(Two, x.l3), Sub(x.c2, x.c3)), x.p2), x.l2)
      [] line = 46 -> Sub(Add(Sub(Mul(Two, x.l4), Sub(x.c3, x.c4)), x.p3), x.l3)
      [] line = 48 -> Sub(Mul(macros_g(Add(Q(1, 32), x.alpha4), x.alpha4),
                              Sub(One, x.delta)), x.c4)
      [] line = 50 -> Sub(Add(Div(x.l0, Q(16, 1)),
                              Mul(macros_g(Add(Q(1, 32), x.alpha4), x.alpha4), x.delta)),
                          x.l4)
      [] line = 52 ->
            Sub(Sub(Add(Div(x.l0, Two),
                        macros_f(Sub(Add(Q(1, 4), x.alpha1), Mul(Two, x.gamma1)),
                                 x.alpha1, x.gamma1)), x.c1), x.l1)
      [] line = 53 -> Sub(Sub(Add(Div(x.l0, Q(4, 1)),
                                  macros_g(Add(Q(1, 8), x.alpha2), x.alpha2)), x.c2), x.l2)
      [] line = 54 -> Sub(Sub(Add(Div(x.l0, Q(8, 1)),
                                  macros_g(Add(Q(1, 16), x.alpha3), x.alpha3)), x.c3), x.l3)
      [] line = 55 -> Sub(Sub(Add(Div(x.l0, Q(16, 1)),
                                  macros_g(Add(Q(1, 32), x.alpha4), x.alpha4)), x.c4), x.l4)
      [] line = 62 -> Sub(x.l4, x.l3)
      [] line = 63 -> Sub(x.l3, x.l2)
      [] line = 64 -> Sub(x.l2, x.l1)

\* quantum_qw.quantum_time
quantum_time(v) ==
    LET x == Decode(qw_set_quantum, v)
        setup == PyMax(<<x.c4, x.l4, Sub(x.l3, Div(x.p3, Two)), Sub(x.l2, Div(x.p2, Two)),
                         Sub(x.l1, Div(x.p1, Two)),
                         Div(Add(x.l1, PyMax(<<Sub(x.l1, Sub(One, x.c1)), Zero>>)), Two)>>)
        update == PyMax(<<Zero, Div(Sub(x.l4, Sub(x.c3, x.c4)), Two),
                          Div(Sub(x.l3, Sub(x.c2, x.c3)), Two),
                          Div(Sub(x.l2, Sub(x.c1, x.c2)), Two),
                          Div(Sub(x.l1, Sub(One, x.c1)), Two)>>)
    IN  PyMax(<<setup, Add(Div(Add(PyMax(<<Zero, Neg(x.l0)>>), x.l4), Two), update)>>)

\* quantum_qw_no_heuristic.set_quantum
qwnh_set_quantum == <<"p0", "p1", "p2", "l0", "l1", "l2", "l3", "l4", "c1", "c2", "c3",
                      "alpha1", "alpha2", "alpha3", "gamma1">>

\* quantum_qw_no_heuristic.constraints_quantum (lines 35-60).
qwnh_constraints_quantum_base ==
    << Cons("eq", "qwnh", 37), Cons("eq", "qwnh", 38), Cons("eq", "qwnh", 39),
       Cons("eq", "qwnh", 41), Cons("eq", "qwnh", 42), Cons("eq", "qwnh", 43),
       Cons("eq", "qwnh", 44),
       Cons("ineq", "qwnh", 46), Cons("ineq", "qwnh", 47), Cons("ineq", "qwnh", 48),
       Cons("ineq", "qwnh", 49),
       Cons("ineq", "qwnh", 56), Cons("ineq", "qwnh", 57), Cons("ineq", "qwnh", 58),
       Cons("ineq", "qwnh", 59) >>

\* The lambdas of quantum_qw_no_heuristic.py, by line, at the decoded x; f, g,
\* p_good, p_good_2_up and p_good_2_down are those of macros (lines 13-14).
qwnh_lambda(line, x) ==
    CASE line = 37 ->
            Sub(p_good_2_down(Half, Zero, Zero,
                              Sub(Add(Q(1, 4), x.alpha1), Mul(Two, x.gamma1)),
                              x.alpha1, x.gamma1), x.p0)
      [] line = 38 ->
            Sub(p_good_2_up(Sub(Add(Q(1, 4), x.alpha1), Mul(Two, x.gamma1)),
                            x.alpha1, x.gamma1, Add(Q(1, 8), x.alpha2), x.alpha2, Zero),
                x.p1)
      [] line = 39 -> Sub(macros_p_good(Add(Q(1, 8), x.alpha2), x.alpha2,
                                        Add(Q(1, 16), x.alpha3), x.alpha3), x.p2)
      [] line = 41 -> Sub(Add(Sub(Mul(Two, x.l1), Sub(One, x.c1)), x.p0), x.l0)
      [] line = 42 -> Sub(Add(Sub(Mul(Two, x.l2), Sub(x.c1, x.c2)), x.p1), x.l1)
      [] line = 43 -> Sub(Add(Sub(Mul(Two, x.l3), Sub(x.c2, x.c3)), x.p2), x.l2)
      [] line = 44 -> Sub(Sub(Mul(Two, x.l4), x.c3), x.l3)
      [] line = 46 ->
            Sub(Sub(Add(Div(x.l0, Two),
                        macros_f(Sub(Add(Q(1, 4), x.alpha1), Mul(Two, x.gamma1)),
                                 x.alpha1, x.gamma1)), x.c1), x.l1)
      [] line = 47 -> Sub(Sub(Add(Div(x.l0, Q(4, 1)),
                                  macros_g(Add(Q(1, 8), x.alpha2), x.alpha2)), x.c2), x.l2)
      [] line = 48 -> Sub(Sub(Add(Div(x.l0, Q(8, 1)),
                                  macros_g(Add(Q(1, 16), x.alpha3), x.alpha3)), x.c3), x.l3)
      [] line = 49 -> Sub(Add(Div(x.l0, Q(16, 1)),
                              Div(macros_g(Add(Q(1, 16), x.alpha3), x.alpha3), Two)), x.l4)
      [] line = 56 -> Sub(x.c3, x.l4)
      [] line = 57 -> Sub(x.l4, x.l3)
      [] line = 58 -> Sub(x.l3, x.l2)
      [] line = 59 -> Sub(x.l2, x.l1)

\* quantum_qw_no_heuristic.quantum_time_without_heuristic
quantum_time_without_heuristic(v) ==
    LET x == Decode(qwnh_set_quantum, v)
        setup == PyMax(<<x.c3, x.l3, Sub(x.l2, Div(x.p2, Two)), Sub(x.l1, Div(x.p1, Two)),
                         Div(Add(x.l1, PyMax(<<Sub(x.l1, Sub(One, x.c1)), Zero>>)), Two)>>)
        time2 == PyMax(<<Sub(x.l3, Sub(x.c2, x.c3)), Zero>>)
        elts2 == PyMax(<<Add(Sub(x.l3, Sub(x.c2, x.c3)), Div(x.p2, Two)), Zero>>)
        time1 == PyMax(<<Sub(x.l2, Sub(x.c1, x.c2)), Zero>>)
        elts1 == PyMax(<<Add(Sub(x.l2, Sub(x.c1, x.c2)), Div(x.p1, Two)), Zero>>)
        update == PyMax(<<Zero, time2, Add(elts2, time1),
                          Add(Div(Add(elts2, elts1), Two),
                              PyMax(<<Div(Sub(x.l1, Sub(One, x.c1)), Two), Zero>>))>>)
    IN  PyMax(<<setup, Add(Div(Add(PyMax(<<Zero, Neg(x.l0)>>), x.l4), Two), update)>>)


(***************************************************************************)
(* The optimize_* drivers.                                                 *)
(***************************************************************************)

\* The module-level constraint lists.  A Python list is an object on the
\* heap, reached through a reference; heap maps each live list to its items.
ModuleLists == {"constraints_hgj", "constraints_classical",
                "constraints_bcj_classical", "qw.constraints_quantum",
                "qwnh.constraints_quantum"}

InitHeap ==
    [r \in ModuleLists |->
        CASE r = "constraints_hgj" -> constraints_hgj_base
          [] r = "constraints_classical" -> constraints_classical_base
          [] r = "constraints_bcj_classical" -> constraints_bcj_classical_base
          [] r = "qw.constraints_quantum" -> qw_constraints_quantum_base
          [] r = "qwnh.constraints_quantum" -> qwnh_constraints_quantum_base]

\* lst taken without the slice: the same list under another name.
ListCopy_alias(hp, lst) == <<hp, lst>>

\* lst[:] : a new list with the items of lst; <<heap, reference>>.
ListCopy(hp, lst) == <<hp @@ ("mycons" :> hp[lst]), "mycons">>

\* lst.insert(0, item): the item put at the front of the list.
ListAppend_front(hp, lst, item) == [hp EXCEPT ![lst] = <<item>> \o @]

\* lst.append(item)
ListAppend(hp, lst, item) == [hp EXCEPT ![lst] = Append(@, item)]

\* The heap once the call's local names are gone.
Collect(hp) == [r \in ModuleLists |-> hp[r]]

\* constraint['fun'](solution) for the constraint c at the vector v.
\* fun(v) for the lambda fun of each file: wrap(lambda x: ..., set)(v).
hgj_fun(fun, v) ==
    CASE fun.file = "hgj" -> hgj_lambda(fun.line, fun.mcons, Decode(set_qhgj, v))
classical_fun(fun, v, where) ==
    CASE fun.file = "classical" -> classical_lambda(fun.line, Decode(set_classical, v), where)
bcj_fun(fun, v) ==
    CASE fun.file = "bcj" -> bcj_lambda(fun.line, Decode(set_bcj, v))
qw_fun(fun, v) ==
    CASE fun.file = "qw" -> qw_lambda(fun.line, Decode(qw_set_quantum, v))
qwnh_fun(fun, v) ==
    CASE fun.file = "qwnh" -> qwnh_lambda(fun.line, Decode(qwnh_set_quantum, v))

\* c['fun'](v) for a constraint c of any of the five bundles.
ConsFun(c, v, where) ==
    CASE c.fun.file = "hgj" -> hgj_fun(c.fun, v)
      [] c.fun.file = "classical" -> classical_fun(c.fun, v, where)
      [] c.fun.file = "bcj" -> bcj_fun(c.fun, v)
      [] c.fun.file = "qw" -> qw_fun(c.fun, v)
      [] c.fun.file = "qwnh" -> qwnh_fun(c.fun, v)

\* The constraint dictionaries of a bundle as check_constraints receives them:
\* 'fun' is the callable of the file, here on the vectors of S.
hgj_callables(constraints, S) ==
    Tuple([i \in 1..Len(constraints) |->
             [type |-> constraints[i].type,
              fun |-> [v \in S |-> hgj_fun(constraints[i].fun, v)]]])
classical_callables(constraints, S, where) ==
    Tuple([i \in 1..Len(constraints) |->
             [type |-> constraints[i].type,
              fun |-> [v \in S |-> classical_fun(constraints[i].fun, v, where)]]])
bcj_callables(constraints, S) ==
    Tuple([i \in 1..Len(constraints) |->
             [type |-> constraints[i].type,
              fun |-> [v \in S |-> bcj_fun(constraints[i].fun, v)]]])
qw_callables(constraints, S) ==
    Tuple([i \in 1..Len(constraints) |->
             [type |-> constraints[i].type,
              fun |-> [v \in S |-> qw_fun(constraints[i].fun, v)]]])
qwnh_callables(constraints, S) ==
    Tuple([i \in 1..Len(constraints) |->
             [type |-> constraints[i].type,
              fun |-> [v \in S |-> qwnh_fun(constraints[i].fun, v)]]])

\* check_constraints stopping one constraint short of the end of the list.
check_constraints_short(constraints, solution) ==
    Tuple([i \in 1..(Len(constraints) - 1) |->
             <<constraints[i].type, constraints[i].fun[solution]>>])

\* macros.check_constraints: the pairs (c['type'], c['fun'](solution)).
check_constraints(constraints, solution) ==
    Tuple([i \in 1..Len(constraints) |->
             <<constraints[i].type, constraints[i].fun[solution]>>])

\* The objective of optimize_hgj, as the value passed around under its name.
hgj_objective(name, v) ==
    CASE name = "classical_time_hgj" -> classical_time_hgj(v)
      [] name = "quantum_time_hgj_first" -> quantum_time_hgj_first(v)
      [] name = "quantum_time_hgj_second" -> quantum_time_hgj_second(v)

\* The objective functions, as the values passed around under their names.
Objective(name, v) ==
    CASE name \in {"classical_time_hgj", "quantum_time_hgj_first",
                   "quantum_time_hgj_second"} -> hgj_objective(name, v)
      [] name = "classical_time" -> classical_time(v)
      [] name = "classical_time_bcj" -> classical_time_bcj(v)
      [] name = "quantum_time" -> quantum_time(v)
      [] name = "quantum_time_without_heuristic" -> quantum_time_without_heuristic(v)

\* n copies of x, and the concatenation used for start and bounds.
Rep(x, n) == Tuple([i \in 1..n |-> x])

\* The flag test of optimize_hgj letting one more flag through.
hgj_flags_lax == {"classical", "quantum1", "quantum2", "moremem", "quantum3"}

\* optimize_hgj, line 151: the flags it accepts.
hgj_flags == {"classical", "quantum1", "quantum2", "moremem"}

\* The selection of the objective with the test for "quantum2" dropped.
hgj_time_first(flag) ==
    IF flag = "classical" THEN "classical_time_hgj" ELSE "quantum_time_hgj_first"

\* The selection of the objective with "moremem" given the improved time.
hgj_time_moremem_second(flag) ==
    IF flag = "classical" THEN "classical_time_hgj"
    ELSE IF flag \in {"quantum2", "moremem"} THEN "quantum_time_hgj_second"
    ELSE "quantum_time_hgj_first"

\* optimize_hgj, lines 154-156: the objective a flag selects.
hgj_time(flag) ==
    IF flag = "classical" THEN "classical_time_hgj"
    ELSE IF flag = "quantum2" THEN "quantum_time_hgj_second"
    ELSE "quantum_time_hgj_first"

\* The memory-budget constraint of optimize_hgj with the full maximum in
\* every mode.
hgj_memory_constraints_full(flag, mcons) ==
    IF mcons # None
    THEN <<[type |-> "ineq", fun |-> [file |-> "hgj", line |-> 168, mcons |-> mcons]]>>
    ELSE <<>>

\* The memory-budget constraint of optimize_hgj given the type 'eq'.
hgj_memory_constraints_eq(flag, mcons) ==
    IF mcons # None
    THEN IF flag = "moremem"
         THEN <<[type |-> "eq", fun |-> [file |-> "hgj", line |-> 166, mcons |-> mcons]]>>
         ELSE <<[type |-> "eq", fun |-> [file |-> "hgj", line |-> 168, mcons |-> mcons]]>>
    ELSE <<>>

\* optimize_hgj, lines 163-168: the memory-budget constraints appended.
hgj_memory_constraints(flag, mcons) ==
    IF mcons # None
    THEN IF flag = "moremem"
         THEN <<[type |-> "ineq", fun |-> [file |-> "hgj", line |-> 166, mcons |-> mcons]]>>
         ELSE <<[type |-> "ineq", fun |-> [file |-> "hgj", line |-> 168, mcons |-> mcons]]>>
    ELSE <<>>

\* start and bounds of the five drivers.
hgj_start == Rep(Zero, 17)
hgj_bounds == Rep(<<Zero, One>>, 17)
classical_start == Rep(Q(-2, 10), 3) \o Rep(Q(2, 10), 7) \o Rep(Q(3, 100), 3)
                     \o Rep(Q(5, 1000), 3)
classical_bounds == Rep(<<Q(-1, 1), Zero>>, 3) \o Rep(<<Zero, One>>, 7)
                      \o Rep(<<Zero, Q(5, 100)>>, 3) \o Rep(<<Zero, Q(1, 100)>>, 3)
bcj_start == Rep(Q(-2, 10), 3) \o Rep(Q(2, 10), 10)
bcj_bounds == Rep(<<Q(-1, 1), Zero>>, 3) \o Rep(<<Zero, One>>, 10)
qw_start == <<Q(-2, 10), Q(-3, 100), Q(-2, 100), Zero, Q(-2, 10)>> \o Rep(Q(19, 100), 9)
              \o Rep(Q(5, 100), 3) \o Rep(Q(5, 1000), 2)
\* The bounds of optimize_quantum with three (0, 0.1) entries, as in the
\* no-heuristic file, in place of four.
qw_bounds_three == Rep(<<Q(-1, 1), Zero>>, 5) \o Rep(<<Zero, One>>, 9)
                     \o Rep(<<Zero, Q(1, 10)>>, 3) \o <<<<Zero, Q(1, 100)>>>>
qw_bounds == Rep(<<Q(-1, 1), Zero>>, 5) \o Rep(<<Zero, One>>, 9)
               \o Rep(<<Zero, Q(1, 10)>>, 4) \o <<<<Zero, Q(1, 100)>>>>
qwnh_start == <<Q(-2, 10), Q(-3, 100), Q(-16, 1000), Q(-2, 10)>>
                \o <<Q(18, 100), Q(21, 100), Q(22, 100), Q(22, 100), Q(63, 100),
                     Q(43, 100), Q(22, 100)>>
                \o Rep(Q(5, 100), 2) \o Rep(Q(5, 1000), 2)
qwnh_bounds == Rep(<<Q(-1, 1), Zero>>, 4) \o Rep(<<Zero, One>>, 7)
                 \o Rep(<<Zero, Q(1, 10)>>, 3) \o <<<<Zero, Q(1, 100)>>>>


(***************************************************************************)
(* State.  One call is made at a time (the programs are single-threaded    *)
(* and synchronous); the state is the heap of module-level lists and what  *)
(* the call in hand did.  A call is made when no call is in hand; once it  *)
(* has ended its caller takes what it returned or raised and goes on.      *)
(***************************************************************************)
VARIABLES
    heap,     \* the module-level constraint lists
    call,     \* the call in hand: [fn, args]; fn is "none" between calls
    ret,      \* how it ended: [kind |-> "return", value] or [kind |-> "raise", exc]
    solver,   \* the scipy.optimize.minimize invocations it made, in order
    fminb,    \* the scipy.optimize.fminbound invocations it made itself
    stdout    \* what it printed, in order

vars == <<heap, call, ret, solver, fminb, stdout>>

\* Largest numerators of the argument grids of the library calls: quarters
\* -1/4 .. MaxQuarter/4 (one and two arguments), eighths -1/8 .. MaxEighth/8
\* (three arguments), quarters 0 .. MaxSix/4 (four and six arguments).
MaxQuarter == 5
MaxEighth == 7
MaxSix == 2
MaxThird == 1

Quarters == {Q(n, 4) : n \in -1..MaxQuarter}
Eighths == {Q(n, 8) : n \in -1..MaxEighth}
SixGrid == {Q(n, 4) : n \in 0..MaxSix}
ThirdGrid == {Q(n, 4) : n \in 0..MaxThird}
FminEnds == {"lower", "middle", "upper"}

\* The vectors the solver is taken to return: numpy.float64 entries inside
\* the box bounds of each driver.
HgjVector(u, v, w) ==
    \*  l30    l31 l32 l34 l20 l21 l22 l10 l11 a  b  c  r         c20 c21 c1 c0
    << NP(0, 1), u, v, w, v, u, v, v, u, w, u, v, NP(1, 2), u, v, w, NP(1, 1) >>
\* Vectors that satisfy the 19 constraints of constraints_hgj and c0 = 1: with
\* a = b = 0 and c = 1/2 every filtering term is 0 and h(c) = 1, which leaves
\* l10 = l20 = 1, l30 = 1 - r and l31 = r; their memory is r.
HgjFeasible(n, d) ==
    \*  l30          l31       l32       l34       l20       l21       l22
    << NP(d - n, d), NP(n, d), NP(0, 1), NP(0, 1), NP(1, 1), NP(0, 1), NP(0, 1),
    \*  l10       l11       a         b         c         r         c20
       NP(1, 1), NP(0, 1), NP(0, 1), NP(0, 1), NP(1, 2), NP(n, d), NP(0, 1),
    \*  c21       c1        c0
       NP(0, 1), NP(0, 1), NP(1, 1) >>
HgjFeasibleVectors == {HgjFeasible(n, 4) : n \in {0, 1, 2, 4}}
HgjVectors == {HgjVector(u, v, w) : u \in {NP(0, 1), NP(1, 2), NP(1, 1)},
                                    v \in {NP(0, 1), NP(1, 4), NP(1, 1)},
                                    w \in {NP(1, 4), NP(1, 2), NP(1, 1)}}
                 \cup HgjFeasibleVectors

ClassicalVector(p, l, al, ga) ==
    \* p0 p1 p2 l1 l2 l3 l4 c1 c2 c3 alpha1 alpha2 alpha3 gamma1 gamma2 gamma3
    << p, p, p, l, l, l, l, l, l, l, al, al, al, ga, ga, ga >>
ClassicalVectors ==
    {ClassicalVector(p, l, ag[1], ag[2]) :
        p \in {NP(0, 1), NP(-1, 4), NP(-1, 2)}, l \in {NP(0, 1), NP(1, 4), NP(1, 2)},
        ag \in {<<NP(0, 1), NP(0, 1)>>, <<NP(1, 32), NP(0, 1)>>,
                <<NP(1, 100), NP(1, 100)>>}}

BcjVector(p, l, al) ==
    \* p0 p1 p2 l1 l2 l3 l4 c1 c2 c3 alpha1 alpha2 alpha3
    << p, p, p, l, l, l, l, l, l, l, al, al, al >>
BcjVectors ==
    {BcjVector(p, l, al) :
        p \in {NP(0, 1), NP(-1, 4), NP(-1, 2)}, l \in {NP(0, 1), NP(1, 4), NP(1, 2)},
        al \in {NP(0, 1), NP(1, 16), NP(1, 4), NP(1, 2)}}

QwVector(p, l, al, ga) ==
    \* p0 p1 p2 p3 l0 l1 l2 l3 l4 delta c1 c2 c3 c4 alpha1..alpha4 gamma1
    << p, p, p, p, p, l, l, l, l, NP(1, 2), l, l, l, l, al, al, al, al, ga >>
QwVectors ==
    {QwVector(p, l, ag[1], ag[2]) :
        p \in {NP(0, 1), NP(-1, 4), NP(-1, 2)}, l \in {NP(0, 1), NP(1, 4), NP(1, 2)},
        ag \in {<<NP(0, 1), NP(0, 1)>>, <<NP(1, 32), NP(0, 1)>>,
                <<NP(1, 16), NP(0, 1)>>, <<NP(0, 1), NP(1, 120)>>}}

QwnhVector(p, l, al, ga) ==
    \* p0 p1 p2 l0 l1 l2 l3 l4 c1 c2 c3 alpha1 alpha2 alpha3 gamma1
    << p, p, p, p, l, l, l, l, l, l, l, al, al, al, ga >>
QwnhVectors ==
    {QwnhVector(p, l, ag[1], ag[2]) :
        p \in {NP(0, 1), NP(-1, 4), NP(-1, 2)}, l \in {NP(0, 1), NP(1, 4), NP(1, 2)},
        ag \in {<<NP(0, 1), NP(0, 1)>>, <<NP(1, 32), NP(0, 1)>>,
                <<NP(1, 16), NP(0, 1)>>, <<NP(0, 1), NP(1, 120)>>}}

Init ==
    /\ heap = InitHeap
    /\ call = [fn |-> "none", args |-> <<>>]
    /\ ret = [kind |-> "none"]
    /\ solver = <<>>
    /\ fminb = <<>>
    /\ stdout = <<>>

\* A call of a library function with Python floats: it returns out, or
\* raises when out is a raised error.
LibraryCall(fn, args, out, fmin) ==
    /\ call.fn = "none"
    /\ call' = [fn |-> fn, args |-> args]
    /\ ret' = IF out.k = "err" THEN [kind |-> "raise", exc |-> "ZeroDivisionError"]
              ELSE [kind |-> "return", value |-> out]
    /\ fminb' = fmin
    /\ solver' = <<>>
    /\ stdout' = <<>>
    /\ UNCHANGED heap

\* A call of a library function whose run r gives the value returned and
\* the fminbound calls made.
LibraryResult(fn, args, r) == LibraryCall(fn, args, r.ret, r.fminbound)

Call_xlx ==
    \E fn \in {"classical.xlx", "hgj.xlx", "macros.xlx", "h"}, a \in Quarters :
        LibraryCall(fn, <<a>>,
                    CASE fn = "classical.xlx" -> classical_xlx(a)
                      [] fn = "hgj.xlx" -> hgj_xlx(a)
                      [] fn = "macros.xlx" -> macros_xlx(a)
                      [] fn = "h" -> h(a),
                    <<>>)

Call_g ==
    \E fn \in {"filtering", "classical.g", "macros.g"}, a \in Quarters, b \in Quarters :
        LibraryCall(fn, <<a, b>>,
                    CASE fn = "filtering" -> filtering(a, b)
                      [] fn = "classical.g" -> classical_g(a, b)
                      [] fn = "macros.g" -> macros_g(a, b),
                    <<>>)

Call_f ==
    \E fn \in {"classical.f", "macros.f"}, a \in Eighths, b \in Eighths, c \in Eighths :
        LibraryCall(fn, <<a, b, c>>,
                    CASE fn = "classical.f" -> classical_f(a, b, c)
                      [] fn = "macros.f" -> macros_f(a, b, c),
                    <<>>)

Call_p_good ==
    \E fn \in {"classical.p_good", "macros.p_good"},
       a0 \in SixGrid, b0 \in SixGrid, a1 \in SixGrid, b1 \in SixGrid :
        LibraryCall(fn, <<a0, b0, a1, b1>>,
                    CASE fn = "classical.p_good" -> classical_p_good(a0, b0, a1, b1)
                      [] fn = "macros.p_good" -> macros_p_good(a0, b0, a1, b1),
                    <<>>)

Call_p_good_2 ==
    \E b0 \in SixGrid, a0 \in SixGrid, c0 \in ThirdGrid,
       b1 \in ThirdGrid, a1 \in ThirdGrid, c1 \in ThirdGrid, where \in FminEnds :
        LibraryResult("p_good_2", <<b0, a0, c0, b1, a1, c1>>,
                      p_good_2(b0, a0, c0, b1, a1, c1, where))

Call_p_good_2_closed ==
    \E fn \in {"p_good_2_aux", "p_good_2_up", "p_good_2_down"},
       b0 \in SixGrid, a0 \in SixGrid, c0 \in ThirdGrid,
       b1 \in ThirdGrid, a1 \in ThirdGrid, c1 \in ThirdGrid :
        LibraryCall(fn, <<b0, a0, c0, b1, a1, c1>>,
                    CASE fn = "p_good_2_aux" -> p_good_2_aux(b0, a0, c0, b1, a1, c1)
                      [] fn = "p_good_2_up" -> p_good_2_up(b0, a0, c0, b1, a1, c1)
                      [] fn = "p_good_2_down" -> p_good_2_down(b0, a0, c0, b1, a1, c1),
                    <<>>)


\* A numpy array: the parameter vector as the solver hands it back.
ndarray(items) == [cls |-> "ndarray", items |-> items]

\* The object scipy.optimize.minimize returns (its fields x and success; the
\* others are not read by the programs).
OptimizeResult(x, success) ==
    [cls |-> "OptimizeResult", x |-> ndarray(x), success |-> success]

\* One invocation of scipy.optimize.minimize, with what it returned.  The
\* solver is not code of the repository: it is taken to return any of the
\* vectors above with either value of success.
Minimize(fun, x0, bounds, tol, constraints, maxiter, result) ==
    [fun |-> fun, x0 |-> x0, bounds |-> bounds, tol |-> tol,
     constraints |-> constraints, maxiter |-> maxiter, result |-> result]

\* The strings round_upwards_to_str(t) and round_to_str(t), held as the
\* function and its argument.
Str(f, t) == [str |-> f, of |-> t]

\* print(label, value) for every field of astuple, in schema order.
FieldLines(schema, v) ==
    Tuple([i \in 1..Len(schema) |-> <<schema[i], Str("round_to_str", v[i])>>])

\* math.ceil in round_upwards_to_str raises on nan (ValueError) and on an
\* infinity (OverflowError): the error the first such line raises, or None.
RECURSIVE PrintError(_, _)
PrintError(lines, i) ==
    IF i > Len(lines) THEN "None"
    ELSE IF /\ lines[i][1] \in {"Time: ", "Memory: ", "Sum: "}
            /\ lines[i][2].of.k # "real"
         THEN IF lines[i][2].of.k = "nan" THEN "ValueError" ELSE "OverflowError"
         ELSE PrintError(lines, i + 1)

RECURSIVE PrintedBefore(_, _)
PrintedBefore(lines, i) ==
    IF i > Len(lines) THEN lines
    ELSE IF /\ lines[i][1] \in {"Time: ", "Memory: ", "Sum: "}
            /\ lines[i][2].of.k # "real"
         THEN SubSeq(lines, 1, i - 1)
         ELSE PrintedBefore(lines, i + 1)

\* The end of a driver that hands back result.x in place of result.
Finish_raw(fn, args, verb, time, hp, invocation, more, fmin) ==
    LET result == invocation.result
        lines == << <<"Validity: ", result.success>>,
                    <<"Time: ", Str("round_upwards_to_str", time)>> >> \o more
        exc == IF verb THEN PrintError(lines, 1) ELSE "None"
    IN  /\ call.fn = "none"
        /\ call' = [fn |-> fn, args |-> args]
        /\ solver' = <<invocation>>
        /\ stdout' = IF verb THEN PrintedBefore(lines, 1) ELSE <<>>
        /\ fminb' = IF verb /\ exc = "None" THEN fmin ELSE <<>>
        /\ ret' = IF exc # "None" THEN [kind |-> "raise", exc |-> exc]
                  ELSE [kind |-> "return", value |-> <<result.success, time, result.x>>]
        /\ heap' = Collect(hp)

\* The end of a driver that raises when the solver reports failure.
Finish_strict(fn, args, verb, time, hp, invocation, more, fmin) ==
    LET result == invocation.result
        lines == << <<"Validity: ", result.success>>,
                    <<"Time: ", Str("round_upwards_to_str", time)>> >> \o more
        exc == IF ~result.success THEN "RuntimeError"
               ELSE IF verb THEN PrintError(lines, 1) ELSE "None"
    IN  /\ call.fn = "none"
        /\ call' = [fn |-> fn, args |-> args]
        /\ solver' = <<invocation>>
        /\ stdout' = IF verb /\ result.success THEN PrintedBefore(lines, 1) ELSE <<>>
        /\ fminb' = IF verb /\ exc = "None" THEN fmin ELSE <<>>
        /\ ret' = IF exc # "None" THEN [kind |-> "raise", exc |-> exc]
                  ELSE [kind |-> "return", value |-> <<result.success, time, result>>]
        /\ heap' = Collect(hp)

\* The end of every optimize_* driver once the solver has returned (the
\* `if verb:` block and the return statement); time is the objective at
\* result.x, and more the lines printed after "Validity" and "Time".
Finish(fn, args, verb, time, hp, invocation, more, fmin) ==
    LET result == invocation.result
        lines == << <<"Validity: ", result.success>>,
                    <<"Time: ", Str("round_upwards_to_str", time)>> >> \o more
        exc == IF verb THEN PrintError(lines, 1) ELSE "None"
    IN  /\ call.fn = "none"
        /\ call' = [fn |-> fn, args |-> args]
        /\ solver' = <<invocation>>
        /\ stdout' = IF verb THEN PrintedBefore(lines, 1) ELSE <<>>
        /\ fminb' = IF verb /\ exc = "None" THEN fmin ELSE <<>>
        /\ ret' = IF exc # "None" THEN [kind |-> "raise", exc |-> exc]
                  ELSE [kind |-> "return", value |-> <<result.success, time, result>>]
        /\ heap' = Collect(hp)

\* quantum_hgj_asymmetric.optimize_hgj
optimize_hgj(flag, verb, mcons) ==
    IF flag \notin hgj_flags
    THEN /\ call.fn = "none"
         /\ call' = [fn |-> "optimize_hgj",
                     args |-> [flag |-> flag, verb |-> verb, mcons |-> mcons]]
         /\ ret' = [kind |-> "raise", exc |-> "ValueError"]
         /\ solver' = <<>>
         /\ fminb' = <<>>
         /\ stdout' = <<>>
         /\ UNCHANGED heap
    ELSE
      \E x \in HgjVectors, success \in BOOLEAN :
        LET time == hgj_time(flag)
            cp == ListCopy(heap, "constraints_hgj")
            mycons == cp[2]
            hp1 == ListAppend(cp[1], mycons, Cons("eq", "hgj", 159))
            extra == hgj_memory_constraints(flag, mcons)
            hp2 == IF Len(extra) = 1 THEN ListAppend(hp1, mycons, extra[1]) ELSE hp1
            objective == time
            run == Minimize(objective, hgj_start, hgj_bounds, "1e-8", hp2[mycons], 10000,
                            OptimizeResult(x, success))
            lines == << <<"Memory: ", Str("round_upwards_to_str", memory_hgj(x))>>,
                        <<"Sum: ", Str("round_upwards_to_str",
                                       Add(hgj_objective(time, x), memory_hgj(x)))>> >>
                     \o FieldLines(set_qhgj, x)
                     \o << <<"check_constraints",
                             check_constraints(hgj_callables(hp2[mycons], {x}), x)>> >>
        IN  Finish("optimize_hgj", [flag |-> flag, verb |-> verb, mcons |-> mcons],
                   verb, hgj_objective(objective, x), hp2, run, lines, <<>>)

\* The fminbound calls check_constraints makes for constraints_classical (the
\* p_good_2 of lines 75 and 76), each ending at where.
classical_fminbound(v, where) ==
    LET x == Decode(set_classical, v)
        a == classical_p1_args(x)
        b == classical_p2_args(x)
    IN  p_good_2(a[1], a[2], a[3], a[4], a[5], a[6], where).fminbound
        \o p_good_2(b[1], b[2], b[3], b[4], b[5], b[6], where).fminbound

\* classical.optimize_classical
optimize_classical(verb) ==
    \E x \in ClassicalVectors, success \in BOOLEAN, where \in FminEnds :
        LET time == "classical_time"
            objective == time
            mycons == "constraints_classical"
            run == Minimize(time, classical_start, classical_bounds, "1e-10",
                            heap[mycons], 5000, OptimizeResult(x, success))
            lines == FieldLines(set_classical, x)
                     \o << <<"Checking that the constraints are satisfied:", "">>,
                           <<"check_constraints",
                             check_constraints(classical_callables(heap[mycons], {x}, where),
                                               x)>> >>
        IN  Finish("optimize_classical", [verb |-> verb], verb, classical_time(x), heap,
                   run, lines, classical_fminbound(x, where))

\* classical_bcj.optimize_bcj_classical
optimize_bcj_classical(verb) ==
    \E x \in BcjVectors, success \in BOOLEAN :
        LET time == "classical_time_bcj"
            objective == time
            mycons == "constraints_bcj_classical"
            run == Minimize(time, bcj_start, bcj_bounds, "1e-10",
                            heap[mycons], 5000, OptimizeResult(x, success))
            lines == FieldLines(set_bcj, x)
                     \o << <<"Checking that the constraints are satisfied:", "">>,
                           <<"check_constraints", check_constraints(bcj_callables(heap[mycons], {x}), x)>> >>
        IN  Finish("optimize_bcj_classical", [verb |-> verb], verb, classical_time_bcj(x),
                   heap, run, lines, <<>>)

\* quantum_qw.optimize_quantum
optimize_quantum(verb) ==
    \E x \in QwVectors, success \in BOOLEAN :
        LET time == "quantum_time"
            objective == time
            mycons == "qw.constraints_quantum"
            run == Minimize(objective, qw_start, qw_bounds, "1e-10",
                            heap[mycons], 5000, OptimizeResult(x, success))
            lines == FieldLines(qw_set_quantum, x)
                     \o << <<"check_constraints", check_constraints(qw_callables(heap[mycons], {x}), x)>> >>
        IN  Finish("optimize_quantum", [verb |-> verb], verb, quantum_time(x), heap, run,
                   lines, <<>>)

\* quantum_qw_no_heuristic.optimize_quantum_without_heuristic
optimize_quantum_without_heuristic(verb) ==
    \E x \in QwnhVectors, success \in BOOLEAN :
        LET time == "quantum_time_without_heuristic"
            objective == time
            run == Minimize(objective, qwnh_start, qwnh_bounds, "1e-10",
                            heap["qwnh.constraints_quantum"], 10000,
                            OptimizeResult(x, success))
            lines == FieldLines(qwnh_set_quantum, x)
                     \o << <<"check_constraints",
                             check_constraints(qwnh_callables(heap["qwnh.constraints_quantum"], {x}), x)>> >>
        IN  Finish("optimize_quantum_without_heuristic", [verb |-> verb], verb,
                   quantum_time_without_heuristic(x), heap, run, lines, <<>>)

\* The values of flag and mcons the callers are taken to pass.
Flags == hgj_flags \cup {"quantum3", ""}
Budgets == {None, Q(1, 4), Q(3, 4)}

Call_optimize_hgj ==
    \E flag \in Flags, verb \in BOOLEAN, mcons \in Budgets : optimize_hgj(flag, verb, mcons)
Call_optimize_classical == \E verb \in BOOLEAN : optimize_classical(verb)
Call_optimize_bcj_classical == \E verb \in BOOLEAN : optimize_bcj_classical(verb)
Call_optimize_quantum == \E verb \in BOOLEAN : optimize_quantum(verb)
Call_optimize_quantum_without_heuristic ==
    \E verb \in BOOLEAN : optimize_quantum_without_heuristic(verb)

\* The caller goes on with what the call returned or raised.
Caller_continues ==
    /\ call.fn # "none"
    /\ call' = [fn |-> "none", args |-> <<>>]
    /\ ret' = [kind |-> "none"]
    /\ solver' = <<>>
    /\ fminb' = <<>>
    /\ stdout' = <<>>
    /\ UNCHANGED heap

Next ==
    \/ Caller_continues
    \/ Call_xlx
    \/ Call_g
    \/ Call_f
    \/ Call_p_good
    \/ Call_p_good_2
    \/ Call_p_good_2_closed
    \/ Call_optimize_hgj
    \/ Call_optimize_classical
    \/ Call_optimize_bcj_classical
    \/ Call_optimize_quantum
    \/ Call_optimize_quantum_without_heuristic

Spec == Init /\ [][Next]_vars


(***************************************************************************)
(* Properties of the drivers and of the entropy library.                   *)
(***************************************************************************)

\* C1: optimize_hgj called with a flag outside "classical", "quantum1",
\* "quantum2", "moremem" raises ValueError, whatever verb and mcons are, with
\* no solver invocation made and constraints_hgj left as it was.
C1_InvalidFlagFailsFast ==
    (/\ call.fn = "optimize_hgj"
     /\ call.args.flag \notin {"classical", "quantum1", "quantum2", "moremem"})
    => /\ ret.kind = "raise"
       /\ ret.exc = "ValueError"
       /\ solver = <<>>
       /\ stdout = <<>>
       /\ heap["constraints_hgj"] = constraints_hgj_base

\* optimize_hgj has been called with the flag "quantum3", verb set and a
\* memory budget, and has raised.
C1_Witness ==
    /\ call.fn = "optimize_hgj"
    /\ call.args.flag = "quantum3"
    /\ call.args.verb
    /\ call.args.mcons # None
    /\ ret.kind = "raise"

\* C2: after any sequence of optimize calls every module-level constraint
\* list has the entries it had before the first call, and the list a call
\* gives the solver is the base list of its variant followed by the extras
\* its own flag and mcons ask for.
C2_BaseListsUnchanged ==
    /\ DOMAIN heap = ModuleLists
    /\ \A r \in ModuleLists : heap[r] = InitHeap[r]
    /\ solver # <<>> =>
         solver[1].constraints =
            CASE call.fn = "optimize_hgj" ->
                    constraints_hgj_base \o <<Cons("eq", "hgj", 159)>>
                    \o hgj_memory_constraints(call.args.flag, call.args.mcons)
              [] call.fn = "optimize_classical" -> constraints_classical_base
              [] call.fn = "optimize_bcj_classical" -> constraints_bcj_classical_base
              [] call.fn = "optimize_quantum" -> qw_constraints_quantum_base
              [] call.fn = "optimize_quantum_without_heuristic" ->
                    qwnh_constraints_quantum_base

\* optimize_hgj has given the solver a list two entries longer than
\* constraints_hgj, which still has its 19 entries.
C2_Witness ==
    /\ call.fn = "optimize_hgj"
    /\ solver # <<>>
    /\ Len(heap["constraints_hgj"]) = 19
    /\ Len(solver[1].constraints) = Len(heap["constraints_hgj"]) + 2

\* C3: in optimize_hgj the flag selects the objective: "classical" gives
\* classical_time_hgj, "quantum2" gives quantum_time_hgj_second, "quantum1"
\* and "moremem" give quantum_time_hgj_first; the objective value returned is
\* that function at the returned vector.
C3_ModeSelectsObjective ==
    (call.fn = "optimize_hgj" /\ solver # <<>>) =>
        LET flag == call.args.flag
            v == solver[1].result.x.items
            t == CASE flag = "classical" ->
                        <<"classical_time_hgj", classical_time_hgj(v)>>
                   [] flag = "quantum2" ->
                        <<"quantum_time_hgj_second", quantum_time_hgj_second(v)>>
                   [] flag \in {"quantum1", "moremem"} ->
                        <<"quantum_time_hgj_first", quantum_time_hgj_first(v)>>
        IN  /\ solver[1].fun = t[1]
            /\ ret.kind = "return" => ret.value[2] = t[2]

\* optimize_hgj has returned in mode "quantum2" with an objective value that
\* quantum_time_hgj_first does not take at the returned vector.
C3_Witness ==
    /\ call.fn = "optimize_hgj"
    /\ call.args.flag = "quantum2"
    /\ ret.kind = "return"
    /\ ret.value[2] # quantum_time_hgj_first(solver[1].result.x.items)

\* C4: optimize_hgj appends a memory-budget inequality if and only if mcons
\* is not None; its residual is mcons - max(l31, l21, l11) in mode "moremem"
\* and mcons - memory_hgj(x) = mcons - max(l31, l32, l34, l21, l22, l11) in
\* the other modes, at every parameter vector x (here the vector the solver
\* hands back, which is any of HgjVectors).
C4_MemoryBudget ==
    (call.fn = "optimize_hgj" /\ solver # <<>>) =>
        LET flag == call.args.flag
            mcons == call.args.mcons
            cons == solver[1].constraints
            extra == SubSeq(cons, Len(constraints_hgj_base) + 2, Len(cons))
        IN  /\ Len(extra) = IF mcons = None THEN 0 ELSE 1
            /\ \A i \in 1..Len(extra) :
                 LET v == solver[1].result.x.items
                     x == Decode(set_qhgj, v)
                     full == PyMax(<<x.l31, x.l32, x.l34, x.l21, x.l22, x.l11>>)
                 IN  /\ extra[i].type = "ineq"
                     /\ memory_hgj(v) = full
                     /\ ConsFun(extra[i], v, "lower") =
                          IF flag = "moremem"
                          THEN Sub(mcons, PyMax(<<x.l31, x.l21, x.l11>>))
                          ELSE Sub(mcons, full)

\* optimize_hgj has been called in mode "moremem" with a budget, and the
\* solver's vector has a list size above all of l31, l21, l11.
C4_Witness ==
    /\ call.fn = "optimize_hgj"
    /\ call.args.flag = "moremem"
    /\ call.args.mcons # None
    /\ solver # <<>>
    /\ Len(solver[1].constraints) = 21
    /\ LET x == Decode(set_qhgj, solver[1].result.x.items)
       IN  Gt(memory_hgj(solver[1].result.x.items), PyMax(<<x.l31, x.l21, x.l11>>))


\* C5 (as the code has it): every optimize entry point returns a triple of
\* the solver's success flag unchanged, the variant's objective at the decoded
\* returned vector, and the solver's result object itself, whose field x is
\* the raw parameter vector.
C5_ReturnsResultObject ==
    (call.fn \in {"optimize_classical", "optimize_bcj_classical", "optimize_hgj",
                  "optimize_quantum", "optimize_quantum_without_heuristic"}
     /\ ret.kind = "return") =>
        LET result == solver[1].result
            v == result.x.items
        IN  /\ Len(solver) = 1
            /\ Len(ret.value) = 3
            /\ ret.value[1] = result.success
            /\ ret.value[2] =
                 CASE call.fn = "optimize_classical" -> classical_time(v)
                   [] call.fn = "optimize_bcj_classical" -> classical_time_bcj(v)
                   [] call.fn = "optimize_hgj" -> Objective(solver[1].fun, v)
                   [] call.fn = "optimize_quantum" -> quantum_time(v)
                   [] call.fn = "optimize_quantum_without_heuristic" ->
                        quantum_time_without_heuristic(v)
            /\ ret.value[3] = result
            /\ ret.value[3].cls = "OptimizeResult"
            /\ ret.value[3].x = ndarray(v)

\* optimize_quantum has returned, the solver having reported failure.
C5_Witness ==
    /\ call.fn = "optimize_quantum"
    /\ ret.kind = "return"
    /\ solver # <<>>
    /\ ~solver[1].result.success
    /\ ret.value[3].x = solver[1].result.x

\* C5 as stated: the third component of the triple an optimize entry point
\* returns is the raw parameter vector the solver returned.
C5_ReturnsRawVector ==
    (call.fn \in {"optimize_classical", "optimize_bcj_classical", "optimize_hgj",
                  "optimize_quantum", "optimize_quantum_without_heuristic"}
     /\ ret.kind = "return") =>
        /\ ret.value[1] = solver[1].result.success
        /\ ret.value[3] = solver[1].result.x

\* C6 as stated: every entropy/probability function returns a real number
\* and never raises, and every constraint residual check_constraints reports
\* at a vector inside the box bounds is a real number.
C6_EveryFunctionTotal ==
    /\ call.fn \in {"classical.xlx", "hgj.xlx", "macros.xlx", "h", "filtering",
                    "classical.g", "macros.g", "classical.f", "macros.f",
                    "classical.p_good", "macros.p_good", "p_good_2", "p_good_2_aux",
                    "p_good_2_up", "p_good_2_down"}
         => ret.kind = "return" /\ ret.value.k = "real"
    /\ \A i \in 1..Len(stdout) :
         stdout[i][1] = "check_constraints" =>
            \A j \in 1..Len(stdout[i][2]) : stdout[i][2][j][2].k = "real"

\* C7: classical.f(a, b, c) follows the ladder in this order: a <= 0 gives
\* g(b, c); else b <= 0 gives g(a, c); else c <= 0 gives g(a, b); else
\* a+b+c >= 1 gives min(g(b, c), g(a, c), g(a, b)); otherwise the 4-way
\* entropy.  For a <= 0 and a+b+c >= 1 the result is g(b, c).
C7_ClassicalFLadder ==
    call.fn = "classical.f" =>
        LET a == call.args[1]
            b == call.args[2]
            c == call.args[3]
            r == Sub(Sub(Sub(One, a), b), c)
        IN  /\ ret.kind = "return"
            /\ ret.value =
                 IF Leq(a, Zero) THEN classical_g(b, c)
                 ELSE IF Leq(b, Zero) THEN classical_g(a, c)
                 ELSE IF Leq(c, Zero) THEN classical_g(a, b)
                 ELSE IF Geq(Add(Add(a, b), c), One)
                      THEN PyMin(<<classical_g(b, c), classical_g(a, c), classical_g(a, b)>>)
                 ELSE Sub(Sub(Sub(Neg(Mul(a, Log2(a))), Mul(b, Log2(b))),
                              Mul(c, Log2(c))), Mul(r, Log2(r)))
            /\ (Leq(a, Zero) /\ Geq(Add(Add(a, b), c), One))
                 => ret.value = classical_g(b, c)

\* classical.f has returned for a <= 0 and a+b+c >= 1, where g(b, c) is not
\* the minimum of the three pairwise values.
C7_Witness ==
    /\ call.fn = "classical.f"
    /\ Leq(call.args[1], Zero)
    /\ Geq(Add(Add(call.args[1], call.args[2]), call.args[3]), One)
    /\ ret.kind = "return"
    /\ ret.value # PyMin(<<classical_g(call.args[2], call.args[3]),
                           classical_g(call.args[1], call.args[3]),
                           classical_g(call.args[1], call.args[2])>>)


\* C8: classical.p_good_2(b0, a0, c0, b1, a1, c1) takes the interval
\* lo = max(a0/2+b0/2-a1, 0, b1/2-a1/2+a0/4+b0/4-c0/2) and
\* hi = min(1/2-c0/2-a1, b0/2, b1/2-a1/2+a0/4+b0/4); when lo > hi it returns
\* p_good(b0, a0, b1, a1) - 1, a value strictly below p_good(b0, a0, b1, a1),
\* without calling the bounded minimizer and without raising; when lo <= hi
\* it calls the bounded minimizer on [lo, hi].
C8_PGood2Interval ==
    call.fn = "p_good_2" =>
        LET b0 == call.args[1]
            a0 == call.args[2]
            c0 == call.args[3]
            b1 == call.args[4]
            a1 == call.args[5]
            m == Add(Add(Sub(Div(b1, Two), Div(a1, Two)), Div(a0, Q(4, 1))),
                     Div(b0, Q(4, 1)))
            lo == PyMax(<<Sub(Add(Div(a0, Two), Div(b0, Two)), a1), Zero,
                          Sub(m, Div(c0, Two))>>)
            hi == PyMin(<<Sub(Sub(Half, Div(c0, Two)), a1), Div(b0, Two), m>>)
            pg == classical_p_good(b0, a0, b1, a1)
        IN  /\ ret.kind = "return"
            /\ Gt(lo, hi) => /\ fminb = <<>>
                             /\ ret.value = Sub(pg, One)
                             /\ Lt(ret.value, pg)
            /\ Leq(lo, hi) => fminb = <<[x1 |-> lo, x2 |-> hi]>>

\* classical.p_good_2 has returned for arguments whose interval is empty,
\* with a1 > 0.
C8_Witness ==
    /\ call.fn = "p_good_2"
    /\ Gt(call.args[5], Zero)
    /\ Gt(p_good_2_bounds(call.args[1], call.args[2], call.args[3],
                          call.args[4], call.args[5], call.args[6])[1],
          p_good_2_bounds(call.args[1], call.args[2], call.args[3],
                          call.args[4], call.args[5], call.args[6])[2])
    /\ ret.kind = "return"
    /\ fminb = <<>>

\* C9 as stated: the constraints of the BCJ-relaxed formulation evaluate
\* their entropy terms with the zero policy xlx(x) = 0 for x <= 0, so the
\* residuals check_constraints reports for constraints_bcj_classical are
\* those of p_good and g built on that policy.
C9_BcjUsesZeroPolicy ==
    (call.fn = "optimize_bcj_classical" /\ stdout # <<>>) =>
        LET x == Decode(set_bcj, solver[1].result.x.items)
            residual == stdout[Len(stdout)][2]
        IN  /\ stdout[Len(stdout)][1] = "check_constraints"
            /\ residual[1][2] =
                 Sub(classical_p_good(Half, Zero, Add(Q(1, 4), x.alpha1), x.alpha1), x.p0)
            /\ residual[8][2] =
                 Sub(Sub(classical_g(Add(Q(1, 4), x.alpha1), x.alpha1), x.c1), x.l1)

\* C10: for b, c with b + c < 1, f(0, b, c) equals g(b, c), for classical.f
\* with classical.g and for macros.f with macros.g.
C10_FBoundaryContinuity ==
    (/\ call.fn \in {"classical.f", "macros.f"}
     /\ Eq(call.args[1], Zero)
     /\ Lt(Add(call.args[2], call.args[3]), One))
    => /\ ret.kind = "return"
       /\ ret.value = IF call.fn = "classical.f"
                      THEN classical_g(call.args[2], call.args[3])
                      ELSE macros_g(call.args[2], call.args[3])

\* macros.f has returned for a = 0 and positive b, c with b + c < 1.
C10_Witness ==
    /\ call.fn = "macros.f"
    /\ Eq(call.args[1], Zero)
    /\ Gt(call.args[2], Zero)
    /\ Gt(call.args[3], Zero)
    /\ Lt(Add(call.args[2], call.args[3]), One)
    /\ ret.kind = "return"

\* The namedtuple class each driver decodes result.x with, and the drivers.
Optimizers == {"optimize_hgj", "optimize_classical", "optimize_bcj_classical",
               "optimize_quantum", "optimize_quantum_without_heuristic"}
SchemaOf(fn) ==
    CASE fn = "optimize_hgj" -> set_qhgj
      [] fn = "optimize_classical" -> set_classical
      [] fn = "optimize_bcj_classical" -> set_bcj
      [] fn = "optimize_quantum" -> qw_set_quantum
      [] fn = "optimize_quantum_without_heuristic" -> qwnh_set_quantum

\* The labels of the field lines a driver printed, in order.
PrintedFields ==
    LET IsField(l) == l[1] \notin {"Validity: ", "Time: ", "Memory: ", "Sum: ",
                                   "Checking that the constraints are satisfied:",
                                   "check_constraints"}
        fields == SelectSeq(stdout, IsField)
    IN  Tuple([i \in 1..Len(fields) |-> fields[i][1]])

\* Whether the names of a schema are all different.
NoRepeat(schema) ==
    \A i \in 1..Len(schema), j \in 1..Len(schema) : schema[i] = schema[j] => i = j

\* C11 (as amended): the five variants have five different schemas, each an
\* ordered tuple of different names with between 13 and 19 fields (the
\* quantum-walk heuristic schema has 19); a driver that returns after
\* printing has printed one line per field of its own schema, in schema
\* order, and the vector it decoded has one entry per field.
C11_SchemaSizes13to19 ==
    /\ \A f \in Optimizers, g \in Optimizers : SchemaOf(f) = SchemaOf(g) => f = g
    /\ \A f \in Optimizers : NoRepeat(SchemaOf(f)) /\ Len(SchemaOf(f)) \in 13..19
    /\ (call.fn \in Optimizers /\ ret.kind = "return") =>
          /\ Len(solver[1].result.x.items) = Len(SchemaOf(call.fn))
          /\ DOMAIN Decode(SchemaOf(call.fn), solver[1].result.x.items)
                = {SchemaOf(call.fn)[i] : i \in 1..Len(SchemaOf(call.fn))}
          /\ call.args.verb => PrintedFields = SchemaOf(call.fn)

\* optimize_quantum has returned after printing its 19 fields.
C11_Witness ==
    /\ call.fn = "optimize_quantum"
    /\ call.args.verb
    /\ ret.kind = "return"
    /\ Len(PrintedFields) = 19

\* C11 as stated: every driver that returns has decoded its vector into a
\* schema of between 13 and 17 fields.
C11_SchemaSizes13to17 ==
    (call.fn \in Optimizers /\ ret.kind = "return") =>
        /\ Len(SchemaOf(call.fn)) \in 13..17
        /\ Len(solver[1].result.x.items) \in 13..17

\* C12: the initial guess and the bounds list a driver passes to the solver
\* have one entry per field of the driver's schema, and every entry of the
\* initial guess lies between the two ends of the bound at its position.
C12_StartInsideBounds ==
    (call.fn \in Optimizers /\ solver # <<>>) =>
        LET x0 == solver[1].x0
            bounds == solver[1].bounds
        IN  /\ Len(x0) = Len(SchemaOf(call.fn))
            /\ Len(bounds) = Len(SchemaOf(call.fn))
            /\ \A i \in 1..Len(x0) :
                  /\ Len(bounds[i]) = 2
                  /\ Leq(bounds[i][1], x0[i])
                  /\ Leq(x0[i], bounds[i][2])

\* optimize_quantum has invoked the solver with its 19 entries; the guess
\* for alpha4 (position 18) is 0.005 under the upper bound 0.1, that for p3
\* (position 4) sits on its upper bound 0.
C12_Witness ==
    /\ call.fn = "optimize_quantum"
    /\ solver # <<>>
    /\ Len(solver[1].x0) = 19
    /\ solver[1].x0[18] = Q(5, 1000)
    /\ solver[1].bounds[18] = <<Zero, Q(1, 10)>>
    /\ solver[1].x0[4] = solver[1].bounds[4][2]

\* C13: the list check_constraints returns holds one (kind, residual) pair
\* per constraint of the list the driver gave the solver, in list order, the
\* kind being the constraint's 'type' and the residual its function at the
\* vector the solver returned; the module-level lists and the vector are
\* left as they were.  In optimize_hgj the list is the per-call one: entry
\* 20 is the equality c0 - 1 and entry 21, under a budget, the memory
\* inequality.
C13_CheckConstraintsPairs ==
    (/\ call.fn \in Optimizers
     /\ stdout # <<>>
     /\ stdout[Len(stdout)][1] = "check_constraints") =>
        LET out == stdout[Len(stdout)][2]
            cons == solver[1].constraints
            v == solver[1].result.x.items
        IN  /\ Len(out) = Len(cons)
            /\ \E where \in FminEnds :
                  \A i \in 1..Len(cons) :
                      out[i] = <<cons[i].type, ConsFun(cons[i], v, where)>>
            /\ \A r \in ModuleLists : heap[r] = InitHeap[r]
            /\ ret.kind = "return" /\ ret.value[3].x.items = v
            /\ call.fn = "optimize_hgj" =>
                  /\ Len(out) = 20 + (IF call.args.mcons = None THEN 0 ELSE 1)
                  /\ out[20] = <<"eq", Sub(Decode(set_qhgj, v).c0, One)>>
                  /\ Len(out) = 21 =>
                        /\ out[21][1] = "ineq"
                        /\ out[21][2] = hgj_lambda(cons[21].fun.line, call.args.mcons,
                                                   Decode(set_qhgj, v))

\* optimize_hgj has printed the 21 pairs of a call made with a memory
\* budget, the last residual being negative (the budget is exceeded).
C13_Witness ==
    /\ call.fn = "optimize_hgj"
    /\ call.args.mcons # None
    /\ stdout # <<>>
    /\ stdout[Len(stdout)][1] = "check_constraints"
    /\ Len(stdout[Len(stdout)][2]) = 21
    /\ Lt(stdout[Len(stdout)][2][21][2], Zero)

\* Whether the vector v satisfies every constraint of the list cons, as the
\* solver reads the list: an 'eq' residual is 0, an 'ineq' residual is >= 0.
Feasible(cons, v) ==
    \A i \in 1..Len(cons) :
        IF cons[i].type = "eq" THEN Eq(hgj_fun(cons[i].fun, v), Zero)
        ELSE Geq(hgj_fun(cons[i].fun, v), Zero)

\* The list optimize_hgj builds, with the budget m in its budget constraint.
WithBudget(cons, m) ==
    Tuple([i \in 1..Len(cons) |->
             IF cons[i].fun.mcons = None THEN cons[i]
             ELSE [cons[i] EXCEPT !.fun.mcons = m]])

\* The least value of quantum_time_hgj_first over the vectors of S feasible
\* for cons, +infinity when none is.
OptimalTime(S, cons) ==
    LET ok == {v \in S : Feasible(cons, v)}
        RECURSIVE Least(_, _)
        Least(best, rest) ==
            IF rest = {} THEN best
            ELSE LET v == CHOOSE w \in rest : TRUE
                     t == quantum_time_hgj_first(v)
                 IN  Least(IF Lt(t, best) THEN t ELSE best, rest \ {v})
    IN  Least(Special("pinf", "float64"), ok)

\* C14: in mode "quantum1" with a memory budget m1, the list given to the
\* solver differs from the list of any larger budget m2 in the budget of its
\* last entry only, whose residual grows by m2 - m1; so a vector feasible
\* under m1 is feasible under m2, and the least time over the feasible
\* vectors under m1 is at least the least time under m2.
C14_BudgetMonotone ==
    (/\ call.fn = "optimize_hgj"
     /\ call.args.flag = "quantum1"
     /\ call.args.mcons # None
     /\ solver # <<>>) =>
        LET cons == solver[1].constraints
            m1 == call.args.mcons
            v == solver[1].result.x.items
        IN  \A m2 \in Budgets \ {None} :
                Leq(m1, m2) =>
                    LET cons2 == WithBudget(cons, m2)
                    IN  /\ Len(cons) = 21
                        /\ SubSeq(cons2, 1, 20) = SubSeq(cons, 1, 20)
                        /\ cons2[21].type = cons[21].type
                        /\ Eq(Sub(hgj_fun(cons2[21].fun, v), hgj_fun(cons[21].fun, v)),
                              Sub(m2, m1))
                        /\ Feasible(cons, v) => Feasible(cons2, v)
                        /\ Geq(OptimalTime(HgjVectors, cons),
                               OptimalTime(HgjVectors, cons2))

\* Under "quantum1" with the budget 1/4 the solver has returned a feasible
\* vector whose memory is the whole budget; a vector of memory 1/2 is
\* feasible under the budget 3/4 and not under 1/4, and the least time is
\* finite under both.
C14_Witness ==
    /\ call.fn = "optimize_hgj"
    /\ call.args.flag = "quantum1"
    /\ call.args.mcons = Q(1, 4)
    /\ solver # <<>>
    /\ Feasible(solver[1].constraints, solver[1].result.x.items)
    /\ memory_hgj(solver[1].result.x.items) = NP(1, 4)
    /\ ~Feasible(solver[1].constraints, HgjFeasible(2, 4))
    /\ Feasible(WithBudget(solver[1].constraints, Q(3, 4)), HgjFeasible(2, 4))
    /\ OptimalTime(HgjVectors, solver[1].constraints).k = "real"

\* C15: a driver called with valid arguments has invoked the solver exactly
\* once and has returned the triple, its first entry being the solver's
\* success flag whether or not the solver converged; it has raised nothing,
\* has printed only if verb is set (the solver's flag first), and without
\* verb has run no diagnostic.
C15_OneInvocationNoRaise ==
    (/\ call.fn \in Optimizers
     /\ call.fn = "optimize_hgj" => call.args.flag \in hgj_flags) =>
        /\ Len(solver) = 1
        /\ ret.kind = "return"
        /\ Len(ret.value) = 3
        /\ ret.value[1] = solver[1].result.success
        /\ ret.value[3] = solver[1].result
        /\ Len(ret.value[3].x.items) = Len(SchemaOf(call.fn))
        /\ stdout # <<>> => call.args.verb
        /\ call.args.verb => stdout[1] = <<"Validity: ", solver[1].result.success>>
        /\ ~call.args.verb => stdout = <<>> /\ fminb = <<>>

\* optimize_classical has printed and returned after a solver run that
\* reported failure.
C15_Witness ==
    /\ call.fn = "optimize_classical"
    /\ call.args.verb
    /\ Len(solver) = 1
    /\ ~solver[1].result.success
    /\ ret.kind = "return"
    /\ ret.value[1] = FALSE
    /\ Len(stdout) > 2

\* C16: whatever the mode and the budget, the list optimize_hgj gives the
\* solver is the 19 entries of constraints_hgj in their order, then the
\* equality c0 - 1 = 0, then the memory-budget inequality when mcons is not
\* None and nothing otherwise: 20 entries without a budget, 21 with one.
C16_HgjSolverList ==
    (call.fn = "optimize_hgj" /\ solver # <<>>) =>
        LET cons == solver[1].constraints
            v == solver[1].result.x.items
        IN  /\ call.args.flag \in {"classical", "quantum1", "quantum2", "moremem"}
            /\ Len(constraints_hgj_base) = 19
            /\ Len(cons) = IF call.args.mcons = None THEN 20 ELSE 21
            /\ \A i \in 1..19 : cons[i] = constraints_hgj_base[i]
            /\ cons[20].type = "eq"
            /\ cons[20].fun.mcons = None
            /\ hgj_fun(cons[20].fun, v) = Sub(v[17], One)
            /\ \A w \in HgjVectors :
                  Eq(hgj_fun(cons[20].fun, w), Zero) <=> Eq(Decode(set_qhgj, w).c0, One)
            /\ Len(cons) = 21 =>
                  /\ cons[21].type = "ineq"
                  /\ cons[21].fun.mcons = call.args.mcons
                  /\ cons[21].fun.line \in {166, 168}

\* optimize_hgj has invoked the solver in mode "classical" without a budget:
\* the list has 20 entries, one more than constraints_hgj.
C16_Witness ==
    /\ call.fn = "optimize_hgj"
    /\ call.args.flag = "classical"
    /\ call.args.mcons = None
    /\ solver # <<>>
    /\ Len(solver[1].constraints) = 20
    /\ Len(heap["constraints_hgj"]) = 19
    /\ solver[1].constraints[20] \notin {heap["constraints_hgj"][i] : i \in 1..19}

\* C17: what optimize_hgj gives the solver in the modes "quantum1" and
\* "moremem" does not depend on which of the two flags was passed, except
\* for the budget entry: the objective is quantum_time_hgj_first, the guess
\* is 17 zeros, the bounds are 17 times (0, 1), the tolerance is 1e-8, the
\* cap is 10000 and the first 20 constraints are constraints_hgj and the c0
\* equality.  Without a budget the list ends there, and the value returned
\* is quantum_time_hgj_first at the returned vector under both flags; with a
\* budget "moremem" appends the lambda of line 166 and "quantum1" that of
\* line 168.
C17_MorememIsQuantum1 ==
    (/\ call.fn = "optimize_hgj"
     /\ call.args.flag \in {"quantum1", "moremem"}) =>
        LET run == solver[1]
            v == run.result.x.items
        IN  /\ Len(solver) = 1
            /\ run.fun = "quantum_time_hgj_first"
            /\ run.x0 = Tuple([i \in 1..17 |-> Zero])
            /\ run.bounds = Tuple([i \in 1..17 |-> <<Zero, One>>])
            /\ run.tol = "1e-8"
            /\ run.maxiter = 10000
            /\ SubSeq(run.constraints, 1, 20)
                  = constraints_hgj_base \o <<Cons("eq", "hgj", 159)>>
            /\ ret.kind = "return"
            /\ ret.value = <<run.result.success, quantum_time_hgj_first(v), run.result>>
            /\ IF call.args.mcons = None
               THEN Len(run.constraints) = 20
               ELSE /\ Len(run.constraints) = 21
                    /\ run.constraints[21].type = "ineq"
                    /\ run.constraints[21].fun.mcons = call.args.mcons
                    /\ run.constraints[21].fun.line
                          = IF call.args.flag = "moremem" THEN 166 ELSE 168

\* optimize_hgj has returned in mode "moremem" without a budget, at a vector
\* where quantum_time_hgj_second gives another value; with a budget of 1/4
\* its constraint (line 166) would hold at this vector where that of
\* "quantum1" (line 168) fails.
C17_Witness ==
    /\ call.fn = "optimize_hgj"
    /\ call.args.flag = "moremem"
    /\ call.args.mcons = None
    /\ ret.kind = "return"
    /\ Len(solver[1].constraints) = 20
    /\ ret.value[2] # quantum_time_hgj_second(solver[1].result.x.items)
    /\ Geq(hgj_lambda(166, Q(1, 4), Decode(set_qhgj, solver[1].result.x.items)), Zero)
    /\ Lt(hgj_lambda(168, Q(1, 4), Decode(set_qhgj, solver[1].result.x.items)), Zero)

=============================================================================
